---- MODULE Spec2Model ----
(***************************************************************************)
(* hook-chain: the chain execution engine (internal/pipeline), the JSON    *)
(* shallow merge, and the hook.Input / hook.Output envelope codec it uses. *)
(*                                                                         *)
(* A json.RawMessage is modelled by its JSON value and by the one property *)
(* of its bytes the program can observe beyond the value: the order in     *)
(* which the keys of a top-level object are written.                       *)
(*   kind    "nil" (no bytes at all, len == 0), "null", "string",          *)
(*           "number", "bool", "array", "object"                           *)
(*   text    the literal of a top-level scalar or array                    *)
(*   members the top-level members of an object, a set of <<key, token>>;  *)
(*           a token is the raw text of the member's value, which the      *)
(*           merge never looks into                                        *)
(*   fmt     "sorted" when the bytes are what encoding/json writes for the *)
(*           value (keys in sorted order), "unsorted" or, for a string,    *)
(*           "escaped" otherwise                                           *)
(***************************************************************************)
EXTENDS Integers, Sequences, FiniteSets, TLC

VARIABLES
    input,        \* the caller's *hook.Input
    hooks,        \* []config.HookEntry
    auditor,      \* the audit.Auditor handed to Run: "nil", "ok" or "fail"
    pc,           \* position of Run: "start", "loop", "inflight", "done", "panic"
    i,            \* loop index of Run (1-based; HookIndex is i - 1)
    accumulated,  \* Run's accumulated tool input
    contextParts, \* Run's contextParts
    hookResults,  \* Run's hookResults
    calls,        \* what the Runner was called with and answered, in order
    result,       \* the Result Run returned
    audits,       \* the entries Auditor.RecordChain received
    baseArg,      \* shallowMergeJSON called on its own: its base,
    patchArg,     \* its patch,
    mergeRet,     \* and what it returned
    stdin,        \* the codec on its own: the bytes given to json.Unmarshal
    parsed,       \* "no" before the decode, then "ok" or "err"
    rawMaps,      \* the rawFields maps allocated so far, a map's address
                  \* being its index
    structs,      \* the hook.Input values held: the decoded one first, then
                  \* the copies WithToolInput returned
    marshaled,    \* what json.Marshal returned for one of them
    resolution,   \* Config.Resolve called on its own: the chains, the event
                  \* and tool names, and what it returned
    ctxState,     \* the caller's context.Context: whether it is done, and
                  \* the call that was in flight when it was cancelled
    build,        \* which of the two runRoot sources was built
    cliPc,        \* position of runRoot
    loaded,       \* what config.Load returned
    exitCode,     \* the exit code of the process, -1 while it runs
    written,      \* what runRoot wrote to stdout: "none", "deny", "result"
    rotPc,        \* per process, the position of its MaybeRotate call
    marker,       \* mtime of the .last-rotation marker, -1 when there is none
    now,          \* the clock
    rotations,    \* the times at which a call got past the throttle
    algebra,      \* shallowMergeJSON composed: three operands and the results
    clock,        \* the audit database's processes: the wall clock
    store,        \* what is committed to audit.db
    txn,          \* the write transaction that is open, if any
    recorder,     \* the process that calls RecordChain
    keeper,       \* the process that calls Prune or MaybeRotate
    archives      \* the files of the archive directory

runVars == <<input, hooks, auditor, pc, i, accumulated, contextParts,
             hookResults, calls, result, audits>>
mergeVars == <<baseArg, patchArg, mergeRet>>
codecVars == <<stdin, parsed, rawMaps, structs, marshaled>>
cliVars == <<build, cliPc, loaded, exitCode, written>>
rotateVars == <<rotPc, marker, now, rotations>>
auditVars == <<clock, store, txn, recorder, keeper, archives>>
extraVars == <<resolution, ctxState, cliVars, rotateVars, algebra, auditVars>>

vars == <<input, hooks, auditor, pc, i, accumulated, contextParts,
          hookResults, calls, result, audits,
          baseArg, patchArg, mergeRet, stdin, parsed, rawMaps, structs,
          marshaled, resolution, ctxState, build, cliPc, loaded, exitCode,
          written, rotPc, marker, now, rotations,
          algebra, clock, store, txn, recorder, keeper, archives>>

\* Longest hook list explored.
MaxHooks == 2

-----------------------------------------------------------------------------
(* json.RawMessage values *)

Raw(k, t, m, f) == [kind |-> k, text |-> t, members |-> m, fmt |-> f]

Nil == Raw("nil", "", {}, "sorted")
Null == Raw("null", "null", {}, "sorted")
Str(s) == Raw("string", s, {}, "sorted")
\* A string literal written with escapes encoding/json would not write.
StrEscaped(s) == Raw("string", s, {}, "escaped")
Num(t) == Raw("number", t, {}, "sorted")
Bool(t) == Raw("bool", t, {}, "sorted")
Arr(t) == Raw("array", t, {}, "sorted")
Obj(m) == Raw("object", "", m, "sorted")
ObjUnsorted(m) == Raw("object", "", m, "unsorted")

\* len(raw) of a json.RawMessage
RawLen0(raw) == raw.kind = "nil"

Keys(m) == {p[1] : p \in m}

\* The JSON value of a raw message, whatever its byte layout.
ValueOf(raw) == [kind |-> raw.kind, text |-> raw.text, members |-> raw.members]

\* Two number literals that are different JSON values and the same float64.
BigOdd == "9007199254740993"
BigEven == "9007199254740992"

\* json.Unmarshal into `any` followed by json.Marshal, on a member's value:
\* a number is decoded to float64 and written back from it.
Float64Token(tok) == IF tok = BigOdd THEN BigEven ELSE tok

\* normalizeJSON without the decode: the bytes compared as they are.
normalizeJSON_Identity(data) == data

normalizeJSON(data) ==
    IF RawLen0(data) THEN Nil
    ELSE Raw(data.kind, Float64Token(data.text),
             {<<p[1], Float64Token(p[2])>> : p \in data.members}, "sorted")

\* bytes.Equal
BytesEqual(a, b) == a = b


-----------------------------------------------------------------------------
(* shallowMergeJSON *)

\* json.Unmarshal(raw, &map[string]json.RawMessage): an object decodes to a
\* map, null leaves the map nil without an error, anything else is an error.
UnmarshalMapFails(raw) == raw.kind \notin {"object", "null"}

MergeOk(v) == [status |-> "ok", val |-> v]
MergeErr == [status |-> "err", val |-> Nil]
\* `baseMap[k] = v` on the nil map a null base decodes to.
MergePanic == [status |-> "panic", val |-> Nil]

\* A merge that keeps the base's value of a key both sides have.
shallowMergeJSON_BaseWins(base, patch) ==
    IF RawLen0(base) /\ RawLen0(patch) THEN MergeOk(Nil)
    ELSE IF RawLen0(base) THEN MergeOk(patch)
    ELSE IF RawLen0(patch) THEN MergeOk(base)
    ELSE IF UnmarshalMapFails(base) \/ UnmarshalMapFails(patch) THEN MergeErr
    ELSE IF base.kind = "null" /\ patch.members # {} THEN MergePanic
    ELSE IF base.kind = "null" THEN MergeOk(Null)
    ELSE MergeOk(Obj(base.members \cup
                     {p \in patch.members : p[1] \notin Keys(base.members)}))

\* A merge that drops the keys both sides have.
shallowMergeJSON_SharedDropped(b, p) ==
    IF RawLen0(b) /\ RawLen0(p) THEN MergeOk(Nil)
    ELSE IF RawLen0(b) THEN MergeOk(p)
    ELSE IF RawLen0(p) THEN MergeOk(b)
    ELSE IF UnmarshalMapFails(b) \/ UnmarshalMapFails(p) THEN MergeErr
    ELSE IF b.kind = "null" /\ p.members # {} THEN MergePanic
    ELSE IF b.kind = "null" THEN MergeOk(Null)
    ELSE MergeOk(Obj({m \in b.members : m[1] \notin Keys(p.members)}
                     \cup {m \in p.members : m[1] \notin Keys(b.members)}))

\* A merge without the early returns: an operand without bytes goes to
\* json.Unmarshal, which fails on it.
shallowMergeJSON_NoEarlyReturn(b, p) ==
    IF RawLen0(b) \/ RawLen0(p) THEN MergeErr
    ELSE IF UnmarshalMapFails(b) \/ UnmarshalMapFails(p) THEN MergeErr
    ELSE IF b.kind = "null" /\ p.members # {} THEN MergePanic
    ELSE IF b.kind = "null" THEN MergeOk(Null)
    ELSE MergeOk(Obj({m \in b.members : m[1] \notin Keys(p.members)}
                     \cup p.members))

shallowMergeJSON(base, patch) ==
    IF RawLen0(base) /\ RawLen0(patch) THEN MergeOk(Nil)
    ELSE IF RawLen0(base) THEN MergeOk(patch)
    ELSE IF RawLen0(patch) THEN MergeOk(base)
    ELSE IF UnmarshalMapFails(base) THEN MergeErr
    ELSE IF UnmarshalMapFails(patch) THEN MergeErr
    ELSE IF base.kind = "null" /\ patch.members # {} THEN MergePanic
    \* json.Marshal of a nil map
    ELSE IF base.kind = "null" THEN MergeOk(Null)
    ELSE MergeOk(Obj({p \in base.members : p[1] \notin Keys(patch.members)}
                     \cup patch.members))

-----------------------------------------------------------------------------
(* hook.Input: the known fields Run reads, and rawFields *)

\* A JSON object of raw values: a set of <<key, RawMessage>>, one per key.
Get(m, k) == (CHOOSE p \in m : p[1] = k)[2]
Has(m, k) == \E p \in m : p[1] = k
Put(m, k, v) == {p \in m : p[1] # k} \cup {<<k, v>>}

\* A string whose one character is the escape \ud800, a surrogate without
\* its pair, and the string of U+FFFD.
LoneSurrogate == "\\ud800"
ReplacementChar == "\\ufffd"

\* json.Unmarshal(v, &inp.Field) for a string field: the string's text, an
\* escaped surrogate without its pair decoded to U+FFFD; null leaves the
\* field empty.
UnmarshalString(raw) ==
    IF raw.kind # "string" THEN ""
    ELSE IF raw.text = LoneSurrogate THEN ReplacementChar ELSE raw.text

\* It fails on everything that is neither a string nor null.
UnmarshalStringFails(raw) == raw.kind \notin {"string", "null"}

\* The known string fields followed here, of the seven the code has.
KnownStrings == {"hook_event_name", "tool_name"}

\* The bytes handed to json.Unmarshal(data, &input): kind is "malformed" for
\* bytes that are not JSON, else the kind of the top-level value; fields are
\* the members of a top-level object, a set of <<key, RawMessage>>.
Bytes(kind, fields) == [kind |-> kind, fields |-> fields]
NoBytes == Bytes("empty", {})

\* Lines 33-75: the top level decoded into a map (null leaves the map nil
\* without an error) and the known string fields decoded.
UnmarshalJSONFails(data) ==
    \/ data.kind \notin {"object", "null"}
    \/ \E p \in data.fields : p[1] \in KnownStrings /\ UnmarshalStringFails(p[2])

\* hook.Input.UnmarshalJSON on the members of the top-level object.
UnmarshalInput(env) ==
    [HookEventName |-> IF Has(env, "hook_event_name")
                       THEN UnmarshalString(Get(env, "hook_event_name")) ELSE "",
     ToolName |-> IF Has(env, "tool_name")
                  THEN UnmarshalString(Get(env, "tool_name")) ELSE "",
     ToolInput |-> IF Has(env, "tool_input") THEN Get(env, "tool_input") ELSE Nil,
     rawFields |-> env]

WithToolInput(inp, merged) ==
    [inp EXCEPT !.ToolInput = merged,
                !.rawFields = Put(inp.rawFields, "tool_input", merged)]

\* json.RawMessage.MarshalJSON: a nil message is written as null.
MarshalRaw(raw) == IF raw.kind = "nil" THEN Null ELSE raw

\* An encoder that writes the known fields only.
MarshalInput_KnownOnly(inp) ==
    LET b == IF inp.HookEventName # ""
             THEN {<<"hook_event_name", Str(inp.HookEventName)>>} ELSE {}
        c == IF inp.ToolName # "" THEN Put(b, "tool_name", Str(inp.ToolName)) ELSE b
    IN IF inp.ToolInput.kind # "nil" THEN Put(c, "tool_input", inp.ToolInput) ELSE c

\* hook.Input.MarshalJSON: rawFields overlaid with the non-empty known fields.
MarshalInput(inp) ==
    LET a == inp.rawFields
        b == IF inp.HookEventName # ""
             THEN Put(a, "hook_event_name", Str(inp.HookEventName)) ELSE a
        c == IF inp.ToolName # "" THEN Put(b, "tool_name", Str(inp.ToolName)) ELSE b
        d == IF inp.ToolInput.kind # "nil" THEN Put(c, "tool_input", inp.ToolInput) ELSE c
    IN {<<p[1], MarshalRaw(p[2])>> : p \in d}

\* A hook.Input whose rawFields is the address of a map, with the map.
Deref(maps, inp) == [inp EXCEPT !.rawFields = maps[inp.rawFields]]

\* A WithToolInput whose copy keeps the receiver's map and writes into it.
WithToolInputAt_SharedMap(maps, inp, merged) ==
    LET cp == WithToolInput(Deref(maps, inp), merged)
    IN [maps |-> [maps EXCEPT ![inp.rawFields] = cp.rawFields],
        inp |-> [cp EXCEPT !.rawFields = inp.rawFields]]

\* WithToolInput with its allocation: lines 153-154 make a new map and copy
\* the receiver's entries into it, lines 156-157 write the copy only.
WithToolInputAt(maps, inp, merged) ==
    LET cp == WithToolInput(Deref(maps, inp), merged)
    IN [maps |-> Append(maps, cp.rawFields),
        inp |-> [cp EXCEPT !.rawFields = Len(maps) + 1]]

-----------------------------------------------------------------------------
(* hook.Output, runner.Result, config.HookEntry *)

\* hook.HookSpecificOutput as a hook writes it.
HSO(dec, reason, upd, ctx) ==
    [PermissionDecision |-> dec, PermissionDecisionReason |-> reason,
     UpdatedInput |-> upd, AdditionalContext |-> ctx]

ZeroHSO == HSO("", "", Nil, "")

\* A hook's stdout: "empty", "blank" (white space only), "text" (not JSON),
\* or "json" (an object that decodes into hook.Output, whose
\* hookSpecificOutput is hso).
StdoutOf(form, hso) == [form |-> form, hso |-> hso]
NoStdout == StdoutOf("empty", ZeroHSO)

\* What Runner.Run returns: err is "" for a nil error.
RunResult(code, out, errtext) ==
    [err |-> "", ExitCode |-> code, Stdout |-> out, Stderr |-> errtext]
RunError(e) == [err |-> e, ExitCode |-> 0, Stdout |-> NoStdout, Stderr |-> ""]

\* bytes.TrimSpace
TrimSpace(stdout) == IF stdout.form = "blank" THEN NoStdout ELSE stdout

\* Stdout that is not JSON taken for an empty output.
UnmarshalOutputFails_Never(stdout) == FALSE

\* json.Unmarshal(stdout, &output)
UnmarshalOutputFails(stdout) == stdout.form # "json"

\* A policy read without regard to the case of its letters.
EffectiveOnError_AnyCase(h) ==
    IF h.OnError = "" THEN "deny"
    ELSE IF h.OnError = "Skip" THEN "skip" ELSE h.OnError

EffectiveOnError(h) == IF h.OnError = "" THEN "deny" ELSE h.OnError

\* A text as the sequence of its parts: "" is <<>>.
Text(s) == IF s = "" THEN <<>> ELSE <<s>>

-----------------------------------------------------------------------------
(* pipeline.Result and the bodies Run writes *)

\* json.Marshal(hook.Output): the fields of hookSpecificOutput, each omitted
\* when empty. isNil marks Result.Output == nil.
Body(ev, dec, reason, upd, ctx) ==
    [isNil |-> FALSE, hookEventName |-> ev, permissionDecision |-> dec,
     permissionDecisionReason |-> reason, updatedInput |-> upd,
     additionalContext |-> ctx]

NoBody ==
    [isNil |-> TRUE, hookEventName |-> "", permissionDecision |-> "",
     permissionDecisionReason |-> <<>>, updatedInput |-> Nil,
     additionalContext |-> <<>>]

Result(code, body) == [ExitCode |-> code, Output |-> body]

denyResult(eventName, reason) ==
    Result(2, Body(eventName, "deny", reason, Nil, <<>>))

\* A decision result that exits 2 whatever the decision.
buildDecisionResult_AlwaysExit2(eventName, decision, reason) ==
    Result(2, Body(eventName, decision, reason, Nil, <<>>))

buildDecisionResult(eventName, decision, reason) ==
    Result(IF decision = "deny" THEN 2 ELSE 0,
           Body(eventName, decision, reason, Nil, <<>>))

\* A join that writes no separator.
Join_NoSeparator(parts) == parts

\* strings.Join(parts, "\n"), the result as the sequence of its parts.
RECURSIVE Join(_)
Join(parts) ==
    IF Len(parts) = 0 THEN <<>>
    ELSE IF Len(parts) = 1 THEN <<parts[1]>>
    ELSE <<parts[1], "\n">> \o Join(Tail(parts))

\* A hook result numbered from one.
HookResult_OneBased(idx, h, code, outcome) ==
    [HookIndex |-> idx + 1, HookName |-> h.Name, ExitCode |-> code,
     Outcome |-> outcome]

\* audit.HookResult
HookResult(idx, h, code, outcome) ==
    [HookIndex |-> idx, HookName |-> h.Name, ExitCode |-> code, Outcome |-> outcome]

\* audit.ChainExecution as recordAudit fills it
ChainExecution(inp, chainLen, outcome, reason, hrs) ==
    [EventName |-> inp.HookEventName, ToolName |-> inp.ToolName,
     ChainLen |-> chainLen, Outcome |-> outcome, Reason |-> reason, Hooks |-> hrs]

\* recordAudit: nothing without an auditor; an error of RecordChain is logged.
recordAudit(aud, inp, chainLen, outcome, reason, hrs, sent) ==
    IF aud = "nil" THEN sent
    ELSE Append(sent, ChainExecution(inp, chainLen, outcome, reason, hrs))


-----------------------------------------------------------------------------
(* pipeline.Run: one iteration of the loop, from the Runner's answer on *)

\* The iteration ends in `continue` (or falls off the loop body).
Continue(acc, ctx, hrs) ==
    [next |-> "continue", acc |-> acc, ctx |-> ctx, hrs |-> hrs,
     result |-> Result(0, NoBody), outcome |-> "", reason |-> <<>>]

\* A return that leaves the loop running.
Return_Continues(acc, ctx, hrs, res, outcome, reason) ==
    [next |-> "continue", acc |-> acc, ctx |-> ctx, hrs |-> hrs,
     result |-> res, outcome |-> outcome, reason |-> reason]

\* A return that puts the state accumulated so far into the Result.
Return_WithState(acc, ctx, hrs, res, outcome, reason) ==
    [next |-> "return", acc |-> acc, ctx |-> ctx, hrs |-> hrs,
     result |-> [res EXCEPT !.Output.updatedInput = acc,
                            !.Output.additionalContext = ctx],
     outcome |-> outcome, reason |-> reason]

\* The iteration ends in recordAudit(...) and `return res`.
Return(acc, ctx, hrs, res, outcome, reason) ==
    [next |-> "return", acc |-> acc, ctx |-> ctx, hrs |-> hrs,
     result |-> res, outcome |-> outcome, reason |-> reason]

\* The iteration panics.
Panicked(acc, ctx, hrs) ==
    [next |-> "panic", acc |-> acc, ctx |-> ctx, hrs |-> hrs,
     result |-> Result(0, NoBody), outcome |-> "", reason |-> <<>>]

\* `if err != nil` after r.Run
RunnerFailed(res) == res.err # ""

\* An exit code 2 handled like any other non-zero exit.
IsExit2_Never(res) == FALSE

\* `if runRes.ExitCode == 2`
IsExit2(res) == res.ExitCode = 2

\* No exit code but 2 is taken for a failure.
IsNonZeroExit_Never(res) == FALSE

\* `if runRes.ExitCode != 0`
IsNonZeroExit(res) == res.ExitCode # 0

\* A decision read without regard to the case of its letters.
IsDecision_AnyCase(hso, decision) ==
    \/ hso.PermissionDecision = decision
    \/ decision = "deny" /\ hso.PermissionDecision = "Deny"

\* Only a deny decision is looked for.
IsDecision_DenyOnly(hso, decision) ==
    hso.PermissionDecision = decision /\ decision = "deny"

\* `if hso.PermissionDecision == "deny"`, `== "ask"`
IsDecision(hso, decision) == hso.PermissionDecision = decision

\* What the reasons Run words itself for a failure of its own begin with.
EnginePrefix == "hook-chain: "

\* A launch error whose reason is the Runner's error alone.
OnRunnerError_NoPrefix(h, idx, res, acc, ctx, hrs, ev) ==
    IF EffectiveOnError(h) = "skip"
    THEN Continue(acc, ctx, Append(hrs, HookResult(idx, h, -1, "skip")))
    ELSE Return(acc, ctx, Append(hrs, HookResult(idx, h, -1, "error")),
                denyResult(ev, <<res.err>>),
                "error", <<"hook ", h.Name, " runner error: ", res.err>>)

\* A launch error that every hook is skipped on.
OnRunnerError_FailOpen(h, idx, res, acc, ctx, hrs, ev) ==
    Continue(acc, ctx, Append(hrs, HookResult(idx, h, -1, "skip")))

\* A launch error handled by the hook's policy: lines 100-126.
OnRunnerError(h, idx, res, acc, ctx, hrs, ev) ==
    IF EffectiveOnError(h) = "skip"
    THEN Continue(acc, ctx, Append(hrs, HookResult(idx, h, -1, "skip")))
    ELSE Return(acc, ctx, Append(hrs, HookResult(idx, h, -1, "error")),
                denyResult(ev, <<EnginePrefix, "hook ", h.Name, " failed: ", res.err>>),
                "error", <<"hook ", h.Name, " runner error: ", res.err>>)

\* An exit code 2 whose stderr is not looked at.
OnExit2_GenericOnly(h, idx, res, acc, ctx, hrs, ev) ==
    LET reason == <<"hook ", h.Name, " denied (exit 2)">>
    IN Return(acc, ctx, Append(hrs, HookResult(idx, h, 2, "deny")),
              denyResult(ev, reason), "deny", reason)

\* Exit code 2: lines 129-146.
OnExit2(h, idx, res, acc, ctx, hrs, ev) ==
    LET reason == IF res.Stderr # "" THEN <<res.Stderr>>
                  ELSE <<"hook ", h.Name, " denied (exit 2)">>
    IN Return(acc, ctx, Append(hrs, HookResult(idx, h, 2, "deny")),
              denyResult(ev, reason), "deny", reason)

\* Any other non-zero exit: lines 149-178.
OnNonZeroExit(h, idx, res, acc, ctx, hrs, ev) ==
    IF EffectiveOnError(h) = "skip"
    THEN Continue(acc, ctx, Append(hrs, HookResult(idx, h, res.ExitCode, "skip")))
    ELSE LET reason == IF res.Stderr # "" THEN <<res.Stderr>>
                       ELSE <<"hook ", h.Name, " failed (exit ",
                              ToString(res.ExitCode), ")">>
         IN Return(acc, ctx, Append(hrs, HookResult(idx, h, res.ExitCode, "deny")),
                   denyResult(ev, reason), "deny", reason)

\* Output that does not decode audited as a denial of the hook.
OnInvalidJSON_AuditsDeny(h, idx, res, acc, ctx, hrs, ev) ==
    IF EffectiveOnError(h) = "skip"
    THEN Continue(acc, ctx, Append(hrs, HookResult(idx, h, 0, "skip")))
    ELSE Return(acc, ctx, Append(hrs, HookResult(idx, h, 0, "deny")),
                denyResult(ev, <<EnginePrefix, "hook ", h.Name,
                                 " returned invalid JSON: ", "decode error">>),
                "deny", <<"hook ", h.Name, " invalid JSON: ", "decode error">>)

\* Stdout that does not decode: lines 196-220.
OnInvalidJSON(h, idx, res, acc, ctx, hrs, ev) ==
    IF EffectiveOnError(h) = "skip"
    THEN Continue(acc, ctx, Append(hrs, HookResult(idx, h, 0, "skip")))
    ELSE Return(acc, ctx, Append(hrs, HookResult(idx, h, 0, "error")),
                denyResult(ev, <<EnginePrefix, "hook ", h.Name,
                                 " returned invalid JSON: ", "decode error">>),
                "error", <<"hook ", h.Name, " invalid JSON: ", "decode error">>)

\* A decoded output without a deny or ask decision: lines 254-293.
OnOutput(h, idx, hso, acc, ctx, hrs, ev) ==
    LET merges == ~RawLen0(hso.UpdatedInput)
        m == IF merges THEN shallowMergeJSON(acc, hso.UpdatedInput) ELSE MergeOk(acc)
        ctx2 == IF hso.AdditionalContext # ""
                THEN Append(ctx, hso.AdditionalContext) ELSE ctx
        hookOutcome == IF merges THEN "merge"
                       ELSE IF hso.AdditionalContext # "" THEN "context" ELSE "pass"
    IN IF m.status = "panic" THEN Panicked(acc, ctx, hrs)
       ELSE IF m.status = "err"
       THEN Return(acc, ctx, Append(hrs, HookResult(idx, h, 0, "error")),
                   denyResult(ev, <<EnginePrefix, "failed to merge updatedInput from hook ",
                                    h.Name, ": ", "merge error">>),
                   "error", <<"merge updatedInput from hook ", h.Name, ": ", "merge error">>)
       ELSE Continue(m.val, ctx2, Append(hrs, HookResult(idx, h, 0, hookOutcome)))

\* A step that reads the hook's decision before its exit code.
HookStep_DecisionFirst(h, idx, res, acc, ctx, hrs, ev) ==
    LET hso == res.Stdout.hso
    IN IF RunnerFailed(res) THEN OnRunnerError(h, idx, res, acc, ctx, hrs, ev)
       ELSE IF IsExit2(res) THEN OnExit2(h, idx, res, acc, ctx, hrs, ev)
       ELSE IF res.Stdout.form = "json" /\ IsDecision(hso, "ask")
       THEN Return(acc, ctx, Append(hrs, HookResult(idx, h, 0, "ask")),
                   buildDecisionResult(ev, "ask", Text(hso.PermissionDecisionReason)),
                   "ask", Text(hso.PermissionDecisionReason))
       ELSE IF res.Stdout.form = "json" /\ IsDecision(hso, "deny")
       THEN Return(acc, ctx, Append(hrs, HookResult(idx, h, 0, "deny")),
                   buildDecisionResult(ev, "deny", Text(hso.PermissionDecisionReason)),
                   "deny", Text(hso.PermissionDecisionReason))
       ELSE IF IsNonZeroExit(res) THEN OnNonZeroExit(h, idx, res, acc, ctx, hrs, ev)
       ELSE IF TrimSpace(res.Stdout).form = "empty"
       THEN Continue(acc, ctx, Append(hrs, HookResult(idx, h, 0, "pass")))
       ELSE IF UnmarshalOutputFails(res.Stdout)
       THEN OnInvalidJSON(h, idx, res, acc, ctx, hrs, ev)
       ELSE OnOutput(h, idx, hso, acc, ctx, hrs, ev)

\* Lines 100-293: what Run does with the Runner's answer for hook h at
\* (0-based) index idx.
HookStep(h, idx, res, acc, ctx, hrs, ev) ==
    IF RunnerFailed(res) THEN OnRunnerError(h, idx, res, acc, ctx, hrs, ev)
    ELSE IF IsExit2(res) THEN OnExit2(h, idx, res, acc, ctx, hrs, ev)
    ELSE IF IsNonZeroExit(res) THEN OnNonZeroExit(h, idx, res, acc, ctx, hrs, ev)
    ELSE LET stdout == TrimSpace(res.Stdout)
             hso == stdout.hso
         IN IF stdout.form = "empty"
            THEN Continue(acc, ctx, Append(hrs, HookResult(idx, h, 0, "pass")))
            ELSE IF UnmarshalOutputFails(stdout)
            THEN OnInvalidJSON(h, idx, res, acc, ctx, hrs, ev)
            ELSE IF IsDecision(hso, "deny")
            THEN Return(acc, ctx, Append(hrs, HookResult(idx, h, 0, "deny")),
                        buildDecisionResult(ev, "deny", Text(hso.PermissionDecisionReason)),
                        "deny", Text(hso.PermissionDecisionReason))
            ELSE IF IsDecision(hso, "ask")
            THEN Return(acc, ctx, Append(hrs, HookResult(idx, h, 0, "ask")),
                        buildDecisionResult(ev, "ask", Text(hso.PermissionDecisionReason)),
                        "ask", Text(hso.PermissionDecisionReason))
            ELSE OnOutput(h, idx, hso, acc, ctx, hrs, ev)

\* A final result that always carries a body.
FinalResult_AlwaysBody(inp, acc, ctx) ==
    LET changed == ~BytesEqual(normalizeJSON(acc), normalizeJSON(inp.ToolInput))
    IN Result(0, Body(inp.HookEventName, "", <<>>,
                      IF changed THEN acc ELSE Nil,
                      IF Len(ctx) > 0 THEN Join(ctx) ELSE <<>>))

\* Lines 296-330: what Run returns once the loop is over. json.Marshal of
\* the final output cannot fail: accumulated is valid JSON.
FinalResult(inp, acc, ctx) ==
    LET changed == ~BytesEqual(normalizeJSON(acc), normalizeJSON(inp.ToolInput))
        hasContext == Len(ctx) > 0
    IN IF ~changed /\ ~hasContext THEN Result(0, NoBody)
       ELSE Result(0, Body(inp.HookEventName, "", <<>>,
                           IF changed THEN acc ELSE Nil,
                           IF hasContext THEN Join(ctx) ELSE <<>>))


-----------------------------------------------------------------------------
(* The envelopes, hook lists and Runner answers explored *)

\* tool_input of the envelopes
InLs == Obj({<<"command", "ls">>})
\* {"id":9007199254740993,"command":"ls"}: keys not in sorted order
InIdLs == ObjUnsorted({<<"id", BigOdd>>, <<"command", "ls">>})

EnvelopeWith(ti) ==
    {<<"hook_event_name", Str("PreToolUse")>>, <<"tool_name", Str("Bash")>>,
     <<"custom", Str("kept")>>, <<"tool_input", ti>>}

\* An envelope without tool_input.
EnvelopeBare ==
    {<<"hook_event_name", Str("PreToolUse")>>, <<"tool_name", Str("Bash")>>}

Envelopes ==
    {EnvelopeWith(InLs), EnvelopeWith(InIdLs), EnvelopeWith(Null), EnvelopeBare}

\* An envelope whose tool_name is written as an unpaired surrogate escape.
EnvelopeSurrogate ==
    {<<"hook_event_name", StrEscaped("PreToolUse")>>,
     <<"tool_name", StrEscaped(LoneSurrogate)>>, <<"custom", Arr("[1]")>>,
     <<"tool_input", InLs>>}

\* updatedInput values hooks send
PatchRm == Obj({<<"command", "rm">>})
PatchExtra == Obj({<<"extra", "y">>})
PatchLs == ObjUnsorted({<<"command", "ls">>})
PatchId == Obj({<<"id", BigEven>>})
PatchScalar == Str("oops")

HookNames == <<"hook1", "hook2", "hook3", "hook4">>

OnErrorValues == {"", "deny", "skip"}

\* The hook lists of a given length: hook k is named HookNames[k].
HookListsOfLen(n) ==
    {[k \in 1..n |-> [Name |-> HookNames[k], OnError |-> f[k]]] :
        f \in [1..n -> OnErrorValues]}

HookLists == UNION {HookListsOfLen(n) : n \in 0..MaxHooks}

JsonOut(dec, reason, upd, ctx) == StdoutOf("json", HSO(dec, reason, upd, ctx))

Responses ==
    { RunError("binary not found"),
      RunResult(2, JsonOut("ask", "needs approval", PatchRm, "c1"), ""),
      RunResult(2, NoStdout, "forbidden"),
      RunResult(1, JsonOut("ask", "needs approval", PatchRm, "c1"), ""),
      RunResult(1, NoStdout, "boom"),
      RunResult(0, NoStdout, ""),
      RunResult(0, StdoutOf("blank", ZeroHSO), ""),
      RunResult(0, StdoutOf("text", ZeroHSO), ""),
      RunResult(0, JsonOut("deny", "blocked", PatchRm, "c1"), ""),
      RunResult(0, JsonOut("ask", "needs approval", PatchRm, "c1"), ""),
      RunResult(0, JsonOut("", "", PatchRm, "c1"), ""),
      RunResult(0, JsonOut("allow", "", PatchExtra, ""), ""),
      RunResult(0, JsonOut("Deny", "", Nil, "c2"), ""),
      RunResult(0, JsonOut("", "", PatchLs, ""), ""),
      RunResult(0, JsonOut("", "", PatchId, ""), ""),
      RunResult(0, JsonOut("", "", PatchScalar, ""), "") }

AuditorKinds == {"nil", "ok", "fail"}

\* Operands shallowMergeJSON is called with on its own.
\* {"command":"ls","opts":{"a":1,"b":2}} and {"opts":{"c":3}}
OptsAB == Obj({<<"command", "ls">>, <<"opts", "{\"a\":1,\"b\":2}">>})
OptsC == Obj({<<"opts", "{\"c\":3}">>})
\* the same key with an array, a string and an object for its value
ShapeArr == Obj({<<"x", "[1,2]">>, <<"command", "ls">>})
ShapeStr == ObjUnsorted({<<"x", "\"s\"">>, <<"a", "null">>})
ShapeObj == Obj({<<"x", "{\"y\":[]}">>})

MergeOperands ==
    {Nil, Null, Str("oops"), Num("1"), Bool("true"), Arr("[1]"), Obj({}),
     InLs, InIdLs, PatchRm, OptsAB, OptsC, ShapeArr, ShapeStr, ShapeObj}

\* shallowMergeJSON not called yet.
NotCalled == [status |-> "none", val |-> Nil]

\* What json.Unmarshal(data, &input) is given.
StdinValues ==
    {Bytes("malformed", {}), Bytes("null", {}), Bytes("string", {}),
     Bytes("number", {}), Bytes("bool", {}), Bytes("array", {}),
     Bytes("object", {}),
     Bytes("object", EnvelopeBare),
     Bytes("object", EnvelopeWith(InIdLs)),
     Bytes("object", EnvelopeWith(Null)),
     \* known fields that are null, "" and written with escapes
     Bytes("object", {<<"hook_event_name", Null>>, <<"tool_name", Str("")>>,
                      <<"custom", Num("1")>>, <<"tool_input", InLs>>}),
     Bytes("object", {<<"hook_event_name", StrEscaped("PreToolUse")>>,
                      <<"tool_name", StrEscaped(LoneSurrogate)>>,
                      <<"custom", Arr("[1]")>>}),
     \* a known string field that is a number
     Bytes("object", {<<"hook_event_name", Str("PreToolUse")>>,
                      <<"tool_name", Num("7")>>})}

\* What WithToolInput is called with.
ToolInputValues == {Nil, InLs, PatchRm}

\* Most hook.Input values held at a time.
MaxStructs == 3

\* json.Marshal not called yet.
NotMarshaled == [of |-> 0, fields |-> {}]

\* Run, shallowMergeJSON and the codec before anything is called.
RunIdle ==
    /\ input = UnmarshalInput(EnvelopeBare)
    /\ hooks = <<>>
    /\ auditor = "nil"
    /\ pc = "idle"
    /\ i = 0
    /\ accumulated = Nil
    /\ contextParts = <<>>
    /\ hookResults = <<>>
    /\ calls = <<>>
    /\ result = Result(0, NoBody)
    /\ audits = <<>>

MergeIdle == baseArg = Nil /\ patchArg = Nil /\ mergeRet = NotCalled

CodecIdle ==
    /\ stdin = NoBytes
    /\ parsed = "no"
    /\ rawMaps = <<>>
    /\ structs = <<>>
    /\ marshaled = NotMarshaled

\* The state of the parts of the program that a specification leaves out:
\* Config.Resolve not called, a live context, no runRoot and no MaybeRotate
\* under way.
NotResolved ==
    [chains |-> <<>>, eventName |-> "", toolName |-> "", called |-> FALSE,
     hooks |-> <<>>]

NotLoaded == [err |-> FALSE, chains |-> <<>>]

Procs == {"p1", "p2"}

ResolveIdle == resolution = NotResolved

\* A context that is not done.
Live == [done |-> FALSE, during |-> 0]

CtxIdle == ctxState = Live

CliIdle ==
    /\ build = "none"
    /\ cliPc = "off"
    /\ loaded = NotLoaded
    /\ exitCode = -1
    /\ written = "none"

RotateIdle ==
    /\ rotPc = [p \in Procs |-> "off"]
    /\ marker = -1
    /\ now = 0
    /\ rotations = <<>>

\* audit.db with no row, sqlite_sequence at 0.
EmptyStore == [chains |-> {}, hooks |-> {}, seq |-> 0]

\* No write transaction is open.
NoTxn == [by |-> "none", chains |-> {}, hooks |-> {}, seq |-> 0]

\* time.Time{}, for which IsZero() holds.
ZeroTime == -1

\* An entry RecordChain has not been given.
NoEntry == [Timestamp |-> ZeroTime, Hooks |-> 0]

RecorderOff ==
    [pc |-> "off", entry |-> NoEntry, ts |-> 0, chainID |-> 0, k |-> 0,
     log |-> <<>>]

KeeperOff ==
    [pc |-> "off", op |-> "none", cutoff |-> 0, entries |-> {},
     count |-> 0, ret |-> "none"]

NoFiles == [final |-> {}, tmp |-> {}, dir |-> FALSE]

AuditIdle ==
    /\ clock = 0
    /\ store = EmptyStore
    /\ txn = NoTxn
    /\ recorder = RecorderOff
    /\ keeper = KeeperOff
    /\ archives = NoFiles

\* shallowMergeJSON not composed yet.
NotComposed ==
    [a |-> Nil, b |-> Nil, c |-> Nil, called |-> FALSE,
     left |-> NotCalled, right |-> NotCalled,
     twice |-> NotCalled, once |-> NotCalled]

AlgebraIdle == algebra = NotComposed

ExtraIdle ==
    ResolveIdle /\ CtxIdle /\ CliIdle /\ RotateIdle /\ AlgebraIdle /\ AuditIdle

-----------------------------------------------------------------------------
(* pipeline.Run as a state machine *)

Init ==
    /\ input \in {UnmarshalInput(e) : e \in Envelopes}
    /\ hooks \in HookLists
    /\ auditor \in AuditorKinds
    /\ pc = "start"
    /\ i = 0
    /\ accumulated = Nil
    /\ contextParts = <<>>
    /\ hookResults = <<>>
    /\ calls = <<>>
    /\ result = Result(0, NoBody)
    /\ audits = <<>>
    /\ MergeIdle
    /\ CodecIdle
    /\ ExtraIdle

\* An empty hook list that returns without a word to the auditor.
RunEmpty_Unaudited ==
    /\ pc = "start"
    /\ Len(hooks) = 0
    /\ result' = Result(0, NoBody)
    /\ pc' = "done"
    /\ UNCHANGED <<input, hooks, auditor, i, accumulated, contextParts,
                   hookResults, calls, audits>>
    /\ UNCHANGED <<mergeVars, codecVars, extraVars>>

\* Lines 75-78: an empty hook list.
RunEmpty ==
    /\ pc = "start"
    /\ Len(hooks) = 0
    /\ audits' = recordAudit(auditor, input, 0, "allow", <<>>, hookResults, audits)
    /\ result' = Result(0, NoBody)
    /\ pc' = "done"
    /\ UNCHANGED <<input, hooks, auditor, i, accumulated, contextParts,
                   hookResults, calls>>
    /\ UNCHANGED <<mergeVars, codecVars, extraVars>>

\* Lines 80-82: the fold starts from the envelope's tool_input.
RunBegin ==
    /\ pc = "start"
    /\ Len(hooks) # 0
    /\ accumulated' = input.ToolInput
    /\ contextParts' = <<>>
    /\ i' = 1
    /\ pc' = "loop"
    /\ UNCHANGED <<input, hooks, auditor, hookResults, calls, result, audits>>
    /\ UNCHANGED <<mergeVars, codecVars, extraVars>>

\* A loop that walks the hook list from its end.
InvokeRunner_Reversed ==
    /\ pc = "loop"
    /\ i <= Len(hooks)
    /\ LET subInput == WithToolInput(input, accumulated)
           inputBytes == MarshalInput(subInput)
       IN calls' = Append(calls, [hookName |-> hooks[Len(hooks) + 1 - i].Name,
                                  input |-> inputBytes,
                                  returned |-> FALSE, res |-> RunError("")])
    /\ pc' = "inflight"
    /\ UNCHANGED <<input, hooks, auditor, i, accumulated, contextParts,
                   hookResults, result, audits>>
    /\ UNCHANGED <<mergeVars, codecVars, extraVars>>

\* Lines 84-99: the sub-envelope is built and encoded and the Runner called.
\* json.Marshal(subInput) cannot fail: every captured field is valid JSON.
InvokeRunner ==
    /\ pc = "loop"
    /\ i <= Len(hooks)
    /\ LET subInput == WithToolInput(input, accumulated)
           inputBytes == MarshalInput(subInput)
       IN calls' = Append(calls, [hookName |-> hooks[i].Name, input |-> inputBytes,
                                  returned |-> FALSE, res |-> RunError("")])
    /\ pc' = "inflight"
    /\ UNCHANGED <<input, hooks, auditor, i, accumulated, contextParts,
                   hookResults, result, audits>>
    /\ UNCHANGED <<mergeVars, codecVars, extraVars>>

\* Lines 100-294: Run finishes the iteration with the Runner's answer res.
Respond(res) ==
    LET s == HookStep(hooks[i], i - 1, res, accumulated, contextParts,
                      hookResults, input.HookEventName)
    IN /\ calls' = [calls EXCEPT ![Len(calls)].returned = TRUE,
                                 ![Len(calls)].res = res]
       /\ accumulated' = s.acc
       /\ contextParts' = s.ctx
       /\ hookResults' = s.hrs
       /\ IF s.next = "continue"
          THEN /\ i' = i + 1
               /\ pc' = "loop"
               /\ UNCHANGED <<result, audits>>
          ELSE IF s.next = "return"
          THEN /\ audits' = recordAudit(auditor, input, Len(hooks), s.outcome,
                                        s.reason, s.hrs, audits)
               /\ result' = s.result
               /\ pc' = "done"
               /\ UNCHANGED i
          ELSE /\ pc' = "panic"
               /\ UNCHANGED <<i, result, audits>>
       /\ UNCHANGED <<input, hooks, auditor>>
       /\ UNCHANGED <<mergeVars, codecVars, extraVars>>

\* Lines 99-294: the Runner answers and Run finishes the iteration.
RunnerReturns ==
    /\ pc = "inflight"
    /\ \E res \in Responses : Respond(res)

\* An end of the loop that turns an error of RecordChain into a deny.
RunFinish_AuditErrorDenies ==
    /\ pc = "loop"
    /\ i > Len(hooks)
    /\ audits' = recordAudit(auditor, input, Len(hooks), "allow", <<>>,
                             hookResults, audits)
    /\ result' = IF auditor = "fail"
                 THEN denyResult(input.HookEventName, <<EnginePrefix, "audit failed">>)
                 ELSE FinalResult(input, accumulated, contextParts)
    /\ pc' = "done"
    /\ UNCHANGED <<input, hooks, auditor, i, accumulated, contextParts,
                   hookResults, calls>>
    /\ UNCHANGED <<mergeVars, codecVars, extraVars>>

\* Lines 296-330: the loop is over.
RunFinish ==
    /\ pc = "loop"
    /\ i > Len(hooks)
    /\ audits' = recordAudit(auditor, input, Len(hooks), "allow", <<>>,
                             hookResults, audits)
    /\ result' = FinalResult(input, accumulated, contextParts)
    /\ pc' = "done"
    /\ UNCHANGED <<input, hooks, auditor, i, accumulated, contextParts,
                   hookResults, calls>>
    /\ UNCHANGED <<mergeVars, codecVars, extraVars>>

Next == RunEmpty \/ RunBegin \/ InvokeRunner \/ RunnerReturns \/ RunFinish

Spec == Init /\ [][Next]_vars

-----------------------------------------------------------------------------
(* shallowMergeJSON called on its own *)

MergeInit ==
    /\ RunIdle
    /\ CodecIdle
    /\ ExtraIdle
    /\ baseArg \in MergeOperands
    /\ patchArg \in MergeOperands
    /\ mergeRet = NotCalled

Merge ==
    /\ mergeRet = NotCalled
    /\ mergeRet' = shallowMergeJSON(baseArg, patchArg)
    /\ UNCHANGED <<baseArg, patchArg, runVars, codecVars, extraVars>>

MergeNext == Merge

MergeSpec == MergeInit /\ [][MergeNext]_vars

-----------------------------------------------------------------------------
(* The hook.Input codec called on its own *)

CodecInit ==
    /\ RunIdle
    /\ MergeIdle
    /\ ExtraIdle
    /\ stdin \in StdinValues
    /\ parsed = "no"
    /\ rawMaps = <<>>
    /\ structs = <<>>
    /\ marshaled = NotMarshaled

\* A hook.Input held: inp with the address of its rawFields; for a copy, the
\* index of the value WithToolInput was called on, the argument, and that
\* value as it was at the call.
Held(inp, from, arg, before) ==
    [inp |-> inp, from |-> from, arg |-> arg, before |-> before]

\* json.Unmarshal(data, &input)
Decode ==
    /\ parsed = "no"
    /\ IF UnmarshalJSONFails(stdin)
       THEN /\ parsed' = "err"
            /\ UNCHANGED <<rawMaps, structs>>
       ELSE LET inp == UnmarshalInput(stdin.fields)
            IN /\ parsed' = "ok"
               /\ rawMaps' = <<inp.rawFields>>
               /\ structs' = <<Held([inp EXCEPT !.rawFields = 1], 0, Nil, inp)>>
    /\ UNCHANGED <<stdin, marshaled, runVars, mergeVars, extraVars>>

\* cp := structs[k].WithToolInput(v)
CopyWithToolInput ==
    /\ parsed = "ok"
    /\ Len(structs) < MaxStructs
    /\ \E k \in 1..Len(structs), v \in ToolInputValues :
          LET r == WithToolInputAt(rawMaps, structs[k].inp, v)
          IN /\ rawMaps' = r.maps
             /\ structs' = Append(structs,
                                  Held(r.inp, k, v, Deref(rawMaps, structs[k].inp)))
    /\ UNCHANGED <<stdin, parsed, marshaled, runVars, mergeVars, extraVars>>

\* json.Marshal(structs[k])
Encode ==
    /\ parsed = "ok"
    /\ \E k \in 1..Len(structs) :
          marshaled' = [of |-> k,
                        fields |-> MarshalInput(Deref(rawMaps, structs[k].inp))]
    /\ UNCHANGED <<stdin, parsed, rawMaps, structs, runVars, mergeVars, extraVars>>

CodecNext == Decode \/ CopyWithToolInput \/ Encode

CodecSpec == CodecInit /\ [][CodecNext]_vars


-----------------------------------------------------------------------------
(* Config.Resolve called on its own *)

MaxChains == 2

\* ChainEntry
ChainEntry(event, tools, hks) == [Event |-> event, Tools |-> tools, Hooks |-> hks]

HookEntry(name) == [Name |-> name, OnError |-> ""]

\* Resolve walks c.Chains from entry k on: an entry of another event is passed
\* over, and the hooks of the first entry that lists the tool are returned;
\* past the last entry the answer is nil, a list of length zero.
RECURSIVE ResolveFrom(_, _, _, _)
ResolveFrom_SkipEmpty(chains, k, eventName, toolName) ==
    IF k > Len(chains) THEN <<>>
    ELSE IF /\ chains[k].Event = eventName
            /\ \E t \in 1..Len(chains[k].Tools) : chains[k].Tools[t] = toolName
            /\ Len(chains[k].Hooks) > 0
         THEN chains[k].Hooks
         ELSE ResolveFrom(chains, k + 1, eventName, toolName)

ResolveFrom_LastMatch(chains, k, eventName, toolName) ==
    IF k > Len(chains) THEN <<>>
    ELSE LET rest == ResolveFrom(chains, k + 1, eventName, toolName)
         IN  IF /\ rest = <<>>
                /\ chains[k].Event = eventName
                /\ \E t \in 1..Len(chains[k].Tools) : chains[k].Tools[t] = toolName
             THEN chains[k].Hooks
             ELSE rest

ResolveFrom(chains, k, eventName, toolName) ==
    IF k > Len(chains) THEN <<>>
    ELSE IF chains[k].Event # eventName
         THEN ResolveFrom(chains, k + 1, eventName, toolName)
         ELSE IF \E t \in 1..Len(chains[k].Tools) : chains[k].Tools[t] = toolName
              THEN chains[k].Hooks
              ELSE ResolveFrom(chains, k + 1, eventName, toolName)

Resolve(chains, eventName, toolName) == ResolveFrom(chains, 1, eventName, toolName)

EventNames == {"PreToolUse", "PostToolUse"}

ToolLists == {<<"Bash">>, <<"Write", "Bash">>, <<"bash">>}

HookEntryLists ==
    {<<>>,
     <<HookEntry("hook1")>>,
     <<HookEntry("hook1"), HookEntry("hook2")>>,
     <<HookEntry("hook2"), HookEntry("hook1")>>}

ChainEntries ==
    {ChainEntry(e, t, h) : e \in EventNames, t \in ToolLists, h \in HookEntryLists}

ChainLists == UNION {[1..n -> ChainEntries] : n \in 0..MaxChains}

ResolveInit ==
    /\ RunIdle
    /\ MergeIdle
    /\ CodecIdle
    /\ CtxIdle
    /\ CliIdle
    /\ RotateIdle
    /\ AlgebraIdle
    /\ AuditIdle
    /\ \E c \in ChainLists, e \in EventNames \cup {""}, t \in {"Bash", "Write", "bash"} :
          resolution = [chains |-> c, eventName |-> e, toolName |-> t,
                        called |-> FALSE, hooks |-> <<>>]

ResolveCall ==
    /\ ~resolution.called
    /\ resolution' =
          [resolution EXCEPT
              !.called = TRUE,
              !.hooks = Resolve(resolution.chains, resolution.eventName,
                                resolution.toolName)]
    /\ UNCHANGED <<runVars, mergeVars, codecVars, ctxState, cliVars, rotateVars, algebra, auditVars>>

ResolveNext == ResolveCall

ResolveSpec == ResolveInit /\ [][ResolveNext]_vars

-----------------------------------------------------------------------------
(* pipeline.Run with runner.ProcessRunner under a context that can be
   cancelled *)

\* What ProcessRunner.Run returns for a process that was killed because its
\* context was done: cmd.Run gives an *exec.ExitError whose ExitCode() is -1,
\* and that comes back as a Result with a nil error.
Killed == RunResult(-1, NoStdout, "")

\* What it returns when the context is done before the process is started:
\* cmd.Run gives the context's error, which is no *exec.ExitError.
NotStarted == RunError("context canceled")

\* What it returns for a process left to run to its end.
ProcessAnswers ==
    { RunError("binary not found"),
      RunResult(2, NoStdout, "forbidden"),
      RunResult(1, NoStdout, "boom"),
      RunResult(0, NoStdout, ""),
      RunResult(0, StdoutOf("text", ZeroHSO), ""),
      RunResult(0, JsonOut("", "", PatchRm, "c1"), "") }

\* The hook lists run: on_error is unset, "deny", "skip", or "Skip", a value
\* config.Load accepts and the code knows nothing of.
PolicyValues == OnErrorValues \cup {"Skip"}

PolicyHookLists ==
    UNION {{[k \in 1..n |-> [Name |-> HookNames[k], OnError |-> f[k]]] :
               f \in [1..n -> PolicyValues]} : n \in 1..MaxHooks}

CancelInputs == {UnmarshalInput(EnvelopeWith(InLs)), UnmarshalInput(EnvelopeSurrogate)}

CancelInit ==
    /\ input \in CancelInputs
    /\ hooks \in PolicyHookLists
    /\ auditor \in {"nil", "ok"}
    /\ pc = "start"
    /\ i = 0
    /\ accumulated = Nil
    /\ contextParts = <<>>
    /\ hookResults = <<>>
    /\ calls = <<>>
    /\ result = Result(0, NoBody)
    /\ audits = <<>>
    /\ MergeIdle
    /\ CodecIdle
    /\ ExtraIdle

\* The caller cancels the context it gave to Run.
Cancel ==
    /\ pc \in {"start", "loop", "inflight"}
    /\ ~ctxState.done
    /\ ctxState' = [done |-> TRUE,
                    during |-> IF pc = "inflight" THEN Len(calls) ELSE 0]
    /\ UNCHANGED <<runVars, mergeVars, codecVars, resolution, cliVars, rotateVars, algebra, auditVars>>

\* ProcessRunner.Run returns: the process ran to its end, or its timeout
\* expired and it was killed; with the context cancelled during the call it
\* was killed, and with the context done before the call it was not started.
ProcessReturns ==
    /\ pc = "inflight"
    /\ \E res \in ProcessAnswers \cup {Killed, NotStarted} :
          /\ IF ~ctxState.done THEN res # NotStarted
             ELSE IF ctxState.during = Len(calls) THEN res = Killed
             ELSE res = NotStarted
          /\ Respond(res)

CancelNext == RunBegin \/ InvokeRunner \/ ProcessReturns \/ Cancel \/ RunFinish

CancelSpec == CancelInit /\ [][CancelNext]_vars

-----------------------------------------------------------------------------
(* runRoot, the default command of the CLI *)

\* The source holds two runRoot functions: src/internal/cli/root.go, which
\* lets the call through when stdin cannot be read or parsed, and
\* src/unnamed/part_002, which writes a deny and exits 2.
Builds == {"root.go", "part_002"}

\* io.ReadAll(os.Stdin) returned an error.
Unreadable == Bytes("unreadable", {})

CliStdinValues == StdinValues \cup {NoBytes, Unreadable}

\* What config.Load returns: an error for a file that cannot be read or
\* parsed, the zero Config when there is no file, the file's chains.
LoadError == [err |-> TRUE, chains |-> <<>>]

LoadResults ==
    {LoadError,
     [err |-> FALSE, chains |-> <<>>],
     [err |-> FALSE,
      chains |-> <<ChainEntry("PostToolUse", <<"Bash">>, <<HookEntry("hook2")>>),
                   ChainEntry("PreToolUse", <<"Write", "Bash">>,
                              <<HookEntry("hook1"),
                                [Name |-> "hook2", OnError |-> "skip"]>>)>>],
     [err |-> FALSE,
      chains |-> <<ChainEntry("PreToolUse", <<"Bash">>, <<>>),
                   ChainEntry("PreToolUse", <<"Bash">>, <<HookEntry("hook1")>>)>>]}

CliInit ==
    /\ RunIdle
    /\ MergeIdle
    /\ ResolveIdle
    /\ CtxIdle
    /\ RotateIdle
    /\ AlgebraIdle
    /\ AuditIdle
    /\ stdin \in CliStdinValues
    /\ parsed = "no"
    /\ rawMaps = <<>>
    /\ structs = <<>>
    /\ marshaled = NotMarshaled
    /\ build \in Builds
    /\ cliPc = "read"
    /\ loaded = NotLoaded
    /\ exitCode = -1
    /\ written = "none"

\* runRoot returns err, nil for code 0, and Execute turns it into the exit
\* code of the process.
ExitWith(code) == cliPc' = "exit" /\ exitCode' = code

\* What runRoot does when stdin cannot be read or parsed: root.go returns nil;
\* part_002 writes a deny to stdout and returns exitError{code: 2}.
FailOnInput ==
    IF build = "root.go"
    THEN ExitWith(0) /\ UNCHANGED written
    ELSE ExitWith(2) /\ written' = "deny"

\* io.ReadAll(os.Stdin) and the test for empty input.
CliRead ==
    /\ cliPc = "read"
    /\ IF stdin = Unreadable THEN FailOnInput
       ELSE IF stdin = NoBytes THEN ExitWith(0) /\ UNCHANGED written
       ELSE cliPc' = "parse" /\ UNCHANGED <<exitCode, written>>
    /\ UNCHANGED <<build, loaded, runVars, mergeVars, codecVars, resolution,
                   ctxState, rotateVars, algebra, auditVars>>

\* json.Unmarshal(data, &input)
CliParse ==
    /\ cliPc = "parse"
    /\ IF UnmarshalJSONFails(stdin)
       THEN FailOnInput /\ UNCHANGED input
       ELSE /\ input' = UnmarshalInput(stdin.fields)
            /\ cliPc' = "load"
            /\ UNCHANGED <<exitCode, written>>
    /\ UNCHANGED <<build, loaded, hooks, auditor, pc, i, accumulated,
                   contextParts, hookResults, calls, result, audits>>
    /\ UNCHANGED <<mergeVars, codecVars, resolution, ctxState, rotateVars, algebra, auditVars>>

\* config.Load()
CliLoad ==
    /\ cliPc = "load"
    /\ \E l \in LoadResults :
          /\ loaded' = l
          /\ IF l.err THEN ExitWith(2)
             ELSE cliPc' = "resolve" /\ UNCHANGED exitCode
    /\ UNCHANGED <<build, written, runVars, mergeVars, codecVars, resolution,
                   ctxState, rotateVars, algebra, auditVars>>

\* The auditor is set up, the chain resolved, and pipeline.Run called unless
\* no chain matches.
CliResolve ==
    /\ cliPc = "resolve"
    /\ auditor' \in {"nil", "ok"}
    /\ hooks' = Resolve(loaded.chains, input.HookEventName, input.ToolName)
    /\ IF Len(hooks') = 0
       THEN ExitWith(0) /\ UNCHANGED pc
       ELSE cliPc' = "run" /\ pc' = "start" /\ UNCHANGED exitCode
    /\ UNCHANGED <<build, loaded, written, input, i, accumulated, contextParts,
                   hookResults, calls, result, audits>>
    /\ UNCHANGED <<mergeVars, codecVars, resolution, ctxState, rotateVars, algebra, auditVars>>

\* pipeline.Run returned: its output is written and its exit code returned.
CliFinish ==
    /\ cliPc = "run"
    /\ pc = "done"
    /\ written' = IF result.Output.isNil THEN "none" ELSE "result"
    /\ ExitWith(result.ExitCode)
    /\ UNCHANGED <<build, loaded, runVars, mergeVars, codecVars, resolution,
                   ctxState, rotateVars, algebra, auditVars>>

\* pipeline.Run panicked: the Go runtime ends the process with exit code 2.
CliCrash ==
    /\ cliPc = "run"
    /\ pc = "panic"
    /\ ExitWith(2)
    /\ UNCHANGED <<build, loaded, written, runVars, mergeVars, codecVars,
                   resolution, ctxState, rotateVars, algebra, auditVars>>

CliNext ==
    \/ CliRead \/ CliParse \/ CliLoad \/ CliResolve
    \/ RunBegin \/ InvokeRunner \/ ProcessReturns \/ RunFinish
    \/ CliFinish \/ CliCrash

CliSpec == CliInit /\ [][CliNext]_vars

-----------------------------------------------------------------------------
(* audit.MaybeRotate called by hook-chain processes that share one throttle
   directory *)

\* time.Hour, the clock counting half hours.
Hour == 2

\* The clock stops here.
MaxTime == 3

\* Most calls that get past the throttle.
MaxRotations == 3

RotateInit ==
    /\ RunIdle
    /\ MergeIdle
    /\ CodecIdle
    /\ ResolveIdle
    /\ CtxIdle
    /\ CliIdle
    /\ AlgebraIdle
    /\ AuditIdle
    /\ rotPc = [p \in Procs |-> "idle"]
    /\ marker \in {-1, 0}
    /\ now = 0
    /\ rotations = <<>>

\* shouldRotate: os.Stat fails for a marker that is not there, which allows
\* the rotation; otherwise the marker's mtime is compared with the clock.
shouldRotate(mtime, t) == mtime = -1 \/ t - mtime >= Hour

\* Time passes.
Tick ==
    /\ now < MaxTime
    /\ now' = now + 1
    /\ UNCHANGED <<rotPc, marker, rotations>>
    /\ UNCHANGED <<runVars, mergeVars, codecVars, resolution, ctxState, cliVars, algebra, auditVars>>

\* Lines 39-43: process p calls MaybeRotate with a database and is throttled,
\* or gets past the throttle.
CheckThrottle(p) ==
    /\ rotPc[p] = "idle"
    /\ Len(rotations) < MaxRotations
    /\ IF shouldRotate(marker, now)
       THEN /\ rotPc' = [rotPc EXCEPT ![p] = "passed"]
            /\ rotations' = Append(rotations, now)
       ELSE UNCHANGED <<rotPc, rotations>>
    /\ UNCHANGED <<marker, now>>
    /\ UNCHANGED <<runVars, mergeVars, codecVars, resolution, ctxState, cliVars, algebra, auditVars>>

\* Line 46: touchMarker creates the marker or truncates it, which sets its
\* mtime; when MkdirAll or os.Create fails the error is logged and the marker
\* is left as it is.
TouchMarker(p) ==
    /\ rotPc[p] = "passed"
    /\ marker' \in {now, marker}
    /\ rotPc' = [rotPc EXCEPT ![p] = "rotating"]
    /\ UNCHANGED <<now, rotations>>
    /\ UNCHANGED <<runVars, mergeVars, codecVars, resolution, ctxState, cliVars, algebra, auditVars>>

\* Lines 48-85: export, archive and prune; MaybeRotate returns and the
\* process ends. The next process to run is given the same name.
Rotate(p) ==
    /\ rotPc[p] = "rotating"
    /\ rotPc' = [rotPc EXCEPT ![p] = "idle"]
    /\ UNCHANGED <<marker, now, rotations>>
    /\ UNCHANGED <<runVars, mergeVars, codecVars, resolution, ctxState, cliVars, algebra, auditVars>>

RotateNext ==
    \/ Tick
    \/ \E p \in Procs : CheckThrottle(p)
    \/ \E p \in Procs : TouchMarker(p)
    \/ \E p \in Procs : Rotate(p)

RotateSpec == RotateInit /\ [][RotateNext]_vars

-----------------------------------------------------------------------------
(* shallowMergeJSON composed, as the loop of Run composes it *)

\* The operands: objects, and the JSON null a hook can send for updatedInput.
AssocOperands ==
    {Obj({}), InLs, InIdLs, PatchRm, PatchExtra, PatchLs, OptsAB, OptsC,
     ShapeStr, Null}

\* Lines 257-277: the result of a merge is the base of the next one, and an
\* error or a panic ends the run before the next merge.
MergeThen(r, patch) ==
    IF r.status = "ok" THEN shallowMergeJSON(r.val, patch) ELSE r

\* The patch of an outer merge is itself the result of a merge.
MergeOnto(base, r) ==
    IF r.status = "ok" THEN shallowMergeJSON(base, r.val) ELSE r

AssocInit ==
    /\ RunIdle
    /\ MergeIdle
    /\ CodecIdle
    /\ ResolveIdle /\ CtxIdle /\ CliIdle /\ RotateIdle /\ AuditIdle
    /\ \E x \in AssocOperands, y \in AssocOperands, z \in AssocOperands :
          algebra = [NotComposed EXCEPT !.a = x, !.b = y, !.c = z]

Compose ==
    /\ ~algebra.called
    /\ algebra' =
          [algebra EXCEPT
              !.called = TRUE,
              !.left = MergeThen(shallowMergeJSON(algebra.a, algebra.b), algebra.c),
              !.right = MergeOnto(algebra.a, shallowMergeJSON(algebra.b, algebra.c)),
              !.once = shallowMergeJSON(algebra.a, algebra.b),
              !.twice = MergeThen(shallowMergeJSON(algebra.a, algebra.b), algebra.b)]
    /\ UNCHANGED <<runVars, mergeVars, codecVars, resolution, ctxState, cliVars,
                   rotateVars, auditVars>>

AssocNext == Compose

AssocSpec == AssocInit /\ [][AssocNext]_vars

-----------------------------------------------------------------------------
(* audit.db: RecordChain, Prune and the rotation of MaybeRotate, called by
   processes that share the database.

   A chain_executions row is [id, ts], a hook_results row [chain_id,
   hook_index]; store is what is committed, which is all a connection other
   than the writer's sees. SQLite has one writer at a time: the first
   statement that writes takes the lock and the commit or the rollback gives
   it back, so txn is the writer's view of the tables while it holds it. *)

\* The clock counts half milliseconds.
TicksPerMs == 2

\* The clock stops here.
MaxClock == 3

\* Most calls of RecordChain.
MaxRecords == 2

\* Most hook results of an entry.
MaxHookRows == 2

\* t.Format("2006-01-02T15:04:05.000"): the time as text, to the millisecond,
\* what is below it cut off. The texts compare as the numbers do.
Format(t) == t \div TicksPerMs

\* time.Parse of a stored timestamp: the instant the text names.
Parse(ts) == ts * TicksPerMs

\* The olderThan of Prune and the Retention of MaybeRotate; resolveRetention
\* takes what parseDuration returns, "0d" included.
Durations == {0, 1, 2}

\* What RecordChain is given: Run leaves Timestamp zero, other callers set it.
Entries == [Timestamp : {ZeroTime, 0}, Hooks : {0, MaxHookRows}]

\* The first writing statement of a transaction: the lock is taken and the
\* tables are seen as committed.
BeginWrite(who, s) ==
    [by |-> who, chains |-> s.chains, hooks |-> s.hooks, seq |-> s.seq]

\* INSERT INTO chain_executions: the id is the next of the AUTOINCREMENT
\* sequence, which LastInsertId returns.
InsertChain(t, ts) ==
    [t EXCEPT !.chains = @ \cup {[id |-> t.seq + 1, ts |-> ts]},
              !.seq = @ + 1]

\* INSERT INTO hook_results
InsertHook(t, chainID, idx) ==
    [t EXCEPT !.hooks = @ \cup {[chain_id |-> chainID, hook_index |-> idx]}]

\* tx.Commit: the writer's view is what is committed.
Commit(t) == [chains |-> t.chains, hooks |-> t.hooks, seq |-> t.seq]

\* A rollback that leaves what the transaction wrote.
Rollback_KeepsWrites(s, t) == IF t.by = "none" THEN s ELSE Commit(t)

\* tx.Rollback: what is committed stays as it was before the transaction.
Rollback(s, t) == s

\* SELECT id FROM chain_executions WHERE timestamp < ?
OlderThan(chains, cutoffStr) == {c \in chains : c.ts < cutoffStr}

\* A delete that takes the rows at the cutoff too.
DeleteChainsBefore_AtCutoff(t, cutoffStr) ==
    [t EXCEPT !.chains = {c \in @ : c.ts > cutoffStr}]

\* DELETE FROM hook_results WHERE chain_id IN (SELECT id FROM
\* chain_executions WHERE timestamp < ?)
DeleteHooksBefore(t, cutoffStr) ==
    LET old == {c.id : c \in OlderThan(t.chains, cutoffStr)}
    IN [t EXCEPT !.hooks = {h \in @ : h.chain_id \notin old}]

\* DELETE FROM chain_executions WHERE timestamp < ?
DeleteChainsBefore(t, cutoffStr) ==
    [t EXCEPT !.chains = @ \ OlderThan(@, cutoffStr)]

\* PruneBefore(db, cutoff): Prune with the cutoff given, in one transaction.
PruneBefore(s, cutoff) ==
    Commit(DeleteChainsBefore(
               DeleteHooksBefore(BeginWrite("keep", s), Format(cutoff)),
               Format(cutoff)))

\* GetChain: the row and its hook results.
GetChain(s, id) ==
    LET c == CHOOSE r \in s.chains : r.id = id
    IN [id |-> id, ts |-> c.ts,
        hooks |-> {h.hook_index : h \in {r \in s.hooks : r.chain_id = id}}]

\* exportEntries: the chains older than the cutoff, each with its hooks.
exportEntries(s, cutoff) ==
    {GetChain(s, c.id) : c \in OlderThan(s.chains, Format(cutoff))}

AuditInit ==
    /\ RunIdle
    /\ MergeIdle
    /\ CodecIdle
    /\ ResolveIdle /\ CtxIdle /\ CliIdle /\ RotateIdle /\ AlgebraIdle
    /\ clock = 0
    /\ store = EmptyStore
    /\ txn = NoTxn
    /\ recorder = [RecorderOff EXCEPT !.pc = "idle"]
    /\ keeper = [KeeperOff EXCEPT !.pc = "idle"]
    /\ archives = NoFiles

OtherIdle == <<runVars, mergeVars, codecVars, resolution, ctxState, cliVars,
               rotateVars, algebra>>

\* Time passes.
ClockTick ==
    /\ clock < MaxClock
    /\ clock' = clock + 1
    /\ UNCHANGED <<store, txn, recorder, keeper, archives, OtherIdle>>

\* RecordChain returned: the call is logged with the id it was given, the
\* number of its hook results, how many of them it had inserted and whether
\* it returned nil.
Returned(r, ok) ==
    [r EXCEPT !.pc = "idle",
              !.log = Append(@, [id |-> r.chainID, n |-> r.entry.Hooks,
                                 k |-> r.k, ok |-> ok])]

\* sqlite.go:182-195: db.Begin, which fails or not, and the timestamp.
RecBegin ==
    /\ recorder.pc = "idle"
    /\ Len(recorder.log) < MaxRecords
    /\ \E e \in Entries, ok \in BOOLEAN :
          LET r == [recorder EXCEPT
                       !.entry = e, !.chainID = 0, !.k = 0,
                       !.ts = Format(IF e.Timestamp = ZeroTime THEN clock
                                     ELSE e.Timestamp)]
          IN recorder' = IF ok THEN [r EXCEPT !.pc = "begun"]
                         ELSE Returned(r, FALSE)
    /\ UNCHANGED <<clock, store, txn, keeper, archives, OtherIdle>>

\* sqlite.go:197-216: the chain row is inserted and its id read.
RecInsertChain ==
    /\ recorder.pc = "begun"
    /\ txn.by = "none"
    /\ txn' = InsertChain(BeginWrite("rec", store), recorder.ts)
    /\ recorder' = [recorder EXCEPT !.pc = "writing", !.chainID = store.seq + 1]
    /\ UNCHANGED <<clock, store, keeper, archives, OtherIdle>>

\* sqlite.go:218-235: one hook result row.
RecInsertHook ==
    /\ recorder.pc = "writing"
    /\ recorder.k < recorder.entry.Hooks
    /\ txn' = InsertHook(txn, recorder.chainID, recorder.k)
    /\ recorder' = [recorder EXCEPT !.k = @ + 1]
    /\ UNCHANGED <<clock, store, keeper, archives, OtherIdle>>

\* sqlite.go:237-241: the commit.
RecCommit ==
    /\ recorder.pc = "writing"
    /\ recorder.k = recorder.entry.Hooks
    /\ store' = Commit(txn)
    /\ txn' = NoTxn
    /\ recorder' = Returned(recorder, TRUE)
    /\ UNCHANGED <<clock, keeper, archives, OtherIdle>>

\* An Exec, LastInsertId or the commit returned an error: RecordChain
\* returns it and the deferred Rollback runs (sqlite.go:186-189).
RecFail ==
    /\ recorder.pc \in {"begun", "writing"}
    /\ store' = Rollback(store, IF txn.by = "rec" THEN txn ELSE NoTxn)
    /\ txn' = IF txn.by = "rec" THEN NoTxn ELSE txn
    /\ recorder' = Returned(recorder, FALSE)
    /\ UNCHANGED <<clock, keeper, archives, OtherIdle>>

\* The call of the keeper returned.
Done(k, ret) == [k EXCEPT !.pc = "done", !.ret = ret]

\* query.go:118-128: the cutoff and db.Begin.
PruneBegin ==
    /\ keeper.pc = "idle"
    /\ \E d \in Durations, ok \in BOOLEAN :
          LET k == [keeper EXCEPT !.op = "prune", !.cutoff = clock - d]
          IN keeper' = IF ok THEN [k EXCEPT !.pc = "begun"] ELSE Done(k, "err")
    /\ UNCHANGED <<clock, store, txn, recorder, archives, OtherIdle>>

\* query.go:134-140: the hook results of the old chains are deleted.
PruneDeleteHooks ==
    /\ keeper.pc = "begun"
    /\ txn.by = "none"
    /\ txn' = DeleteHooksBefore(BeginWrite("keep", store), Format(keeper.cutoff))
    /\ keeper' = [keeper EXCEPT !.pc = "hooksGone"]
    /\ UNCHANGED <<clock, store, recorder, archives, OtherIdle>>

\* query.go:142-150: the old chains are deleted and counted.
PruneDeleteChains ==
    /\ keeper.pc = "hooksGone"
    /\ txn' = DeleteChainsBefore(txn, Format(keeper.cutoff))
    /\ keeper' = [keeper EXCEPT
                     !.pc = "chainsGone",
                     !.count = Cardinality(txn.chains) - Cardinality(txn'.chains)]
    /\ UNCHANGED <<clock, store, recorder, archives, OtherIdle>>

\* query.go:152-156: the commit; the count is returned.
PruneCommit ==
    /\ keeper.pc = "chainsGone"
    /\ store' = Commit(txn)
    /\ txn' = NoTxn
    /\ keeper' = Done(keeper, "ok")
    /\ UNCHANGED <<clock, recorder, archives, OtherIdle>>

\* A statement or the commit of Prune returned an error: Prune returns
\* (0, err) and the deferred Rollback runs (query.go:129-131).
PruneFail ==
    /\ keeper.op = "prune"
    /\ keeper.pc \in {"begun", "hooksGone", "chainsGone"}
    /\ store' = Rollback(store, IF txn.by = "keep" THEN txn ELSE NoTxn)
    /\ txn' = IF txn.by = "keep" THEN NoTxn ELSE txn
    /\ keeper' = Done([keeper EXCEPT !.count = 0], "err")
    /\ UNCHANGED <<clock, recorder, archives, OtherIdle>>

\* part_003:48-59: past the throttle, the cutoff is taken and the entries
\* older than it are read; with none to archive MaybeRotate returns.
RotExport ==
    /\ keeper.pc = "idle"
    /\ \E r \in Durations :
          LET cutoff == clock - r
              entries == exportEntries(store, cutoff)
              k == [keeper EXCEPT !.op = "rotate", !.cutoff = cutoff,
                                  !.entries = entries]
          IN keeper' = IF entries = {} THEN Done(k, "none")
                       ELSE [k EXCEPT !.pc = "mkdir"]
    /\ UNCHANGED <<clock, store, txn, recorder, archives, OtherIdle>>

\* part_003:61-65: os.MkdirAll(cfg.ArchiveDir)
RotMkdir ==
    /\ keeper.pc = "mkdir"
    /\ archives' = [archives EXCEPT !.dir = TRUE]
    /\ keeper' = [keeper EXCEPT !.pc = "write"]
    /\ UNCHANGED <<clock, store, txn, recorder, OtherIdle>>

\* part_003:158-190: the entries are written to the temporary file.
RotWriteTmp ==
    /\ keeper.pc = "write"
    /\ archives' = [archives EXCEPT !.tmp = {keeper.entries}]
    /\ keeper' = [keeper EXCEPT !.pc = "rename"]
    /\ UNCHANGED <<clock, store, txn, recorder, OtherIdle>>

\* part_003:192-197: the temporary file is renamed into place.
RotRename ==
    /\ keeper.pc = "rename"
    /\ archives' = [archives EXCEPT !.final = @ \cup archives.tmp, !.tmp = {}]
    /\ keeper' = [keeper EXCEPT !.pc = "prune"]
    /\ UNCHANGED <<clock, store, txn, recorder, OtherIdle>>

\* part_003:74-79: PruneBefore(db, cutoff)
RotPrune ==
    /\ keeper.pc = "prune"
    /\ txn.by = "none"
    /\ store' = PruneBefore(store, keeper.cutoff)
    /\ keeper' = Done([keeper EXCEPT
                          !.count = Cardinality(store.chains)
                                      - Cardinality(store'.chains)], "ok")
    /\ UNCHANGED <<clock, txn, recorder, archives, OtherIdle>>

\* The export, MkdirAll, writeArchive or PruneBefore returned an error:
\* it is logged and MaybeRotate returns; writeArchive removes its temporary
\* file.
RotFail ==
    /\ keeper.op \in {"none", "rotate"}
    /\ keeper.pc \in {"idle", "mkdir", "write", "rename", "prune"}
    /\ archives' = [archives EXCEPT !.tmp = {}]
    /\ keeper' = Done([keeper EXCEPT !.op = "rotate"], "err")
    /\ UNCHANGED <<clock, store, txn, recorder, OtherIdle>>

AuditNext ==
    \/ ClockTick
    \/ RecBegin \/ RecInsertChain \/ RecInsertHook \/ RecCommit \/ RecFail
    \/ PruneBegin \/ PruneDeleteHooks \/ PruneDeleteChains \/ PruneCommit
    \/ PruneFail
    \/ RotExport \/ RotMkdir \/ RotWriteTmp \/ RotRename \/ RotPrune \/ RotFail

AuditSpec == AuditInit /\ [][AuditNext]_vars

-----------------------------------------------------------------------------
(* What the claims are stated in *)

Range(seq) == {seq[k] : k \in 1..Len(seq)}

\* The calls the Runner has answered.
Answered == {k \in 1..Len(calls) : calls[k].returned}

\* The step just taken is RunnerReturns.
StepTaken == pc = "inflight" /\ pc' # "inflight"

\* The answer the step just taken handled.
Answer == calls'[Len(calls')].res

IsLaunchError(res) == res.err # ""
IsOtherExit(res) == res.err = "" /\ res.ExitCode \notin {0, 2}
IsUndecodable(res) ==
    res.err = "" /\ res.ExitCode = 0 /\ res.Stdout.form = "text"
IsPassthrough(res) ==
    res.err = "" /\ res.ExitCode = 0 /\ res.Stdout.form \in {"empty", "blank"}
Decides(res, decision) ==
    /\ res.err = "" /\ res.ExitCode = 0 /\ res.Stdout.form = "json"
    /\ res.Stdout.hso.PermissionDecision = decision

\* The hook's step went through: exit 0, decodable output, no decision.
Applies(res) ==
    /\ res.err = "" /\ res.ExitCode = 0 /\ res.Stdout.form = "json"
    /\ res.Stdout.hso.PermissionDecision \notin {"deny", "ask"}

IsDeny(r) ==
    r.ExitCode = 2 /\ ~r.Output.isNil /\ r.Output.permissionDecision = "deny"
IsAsk(r) ==
    r.ExitCode = 0 /\ ~r.Output.isNil /\ r.Output.permissionDecision = "ask"

\* The step skipped the hook: one more hook result, tagged skip, and the loop
\* goes on at the next index with the fold's state as it was.
SkippedStep ==
    /\ pc' = "loop" /\ i' = i + 1
    /\ accumulated' = accumulated
    /\ contextParts' = contextParts
    /\ Len(hookResults') = Len(hookResults) + 1
    /\ hookResults'[Len(hookResults')].Outcome = "skip"
    /\ hookResults'[Len(hookResults')].HookIndex = i - 1
    /\ result' = result /\ audits' = audits

\* The run ended with Run returning, at the hook in hand.
EndedAt(k) == pc = "done" /\ i = k /\ Len(calls) = k

-----------------------------------------------------------------------------
(* The claims *)

\* C1: a hook the Runner reports exit code 2 for ends the chain there with
\* a Deny Result (ExitCode 2, permissionDecision "deny"), whatever the
\* hook's on_error and stdout.
C1_Exit2AlwaysDenies ==
    \A k \in Answered :
        (calls[k].res.err = "" /\ calls[k].res.ExitCode = 2)
            => EndedAt(k) /\ IsDeny(result)

C1_Witness ==
    /\ pc = "done" /\ i = 2 /\ Len(calls) = 2
    /\ hooks[2].OnError = "skip"
    /\ calls[2].res.err = "" /\ calls[2].res.ExitCode = 2
    /\ calls[2].res.Stdout.form = "json"
    /\ IsDeny(result)

\* C2: a hook that exits 0 with a decoded permissionDecision "deny" (resp.
\* "ask") ends the chain with a Deny (resp. Ask) Result whose reason is the
\* hook's permissionDecisionReason, also under on_error=skip; a hook is
\* skipped only for a launch failure, a non-zero exit other than 2, or
\* output that does not decode.
C2_DecisionIgnoresSkip ==
    /\ \A k \in Answered :
        /\ Decides(calls[k].res, "deny") =>
              /\ EndedAt(k) /\ IsDeny(result)
              /\ result.Output.permissionDecisionReason
                    = Text(calls[k].res.Stdout.hso.PermissionDecisionReason)
        /\ Decides(calls[k].res, "ask") =>
              /\ EndedAt(k) /\ IsAsk(result)
              /\ result.Output.permissionDecisionReason
                    = Text(calls[k].res.Stdout.hso.PermissionDecisionReason)
    /\ \A k \in 1..Len(hookResults) :
        hookResults[k].Outcome = "skip" =>
            /\ hooks[k].OnError = "skip"
            /\ \/ IsLaunchError(calls[k].res)
               \/ IsOtherExit(calls[k].res)
               \/ IsUndecodable(calls[k].res)

C2_Witness ==
    /\ pc = "done" /\ i = 2 /\ Len(calls) = 2
    /\ hooks[1].OnError = "skip" /\ hookResults[1].Outcome = "skip"
    /\ hooks[2].OnError = "skip"
    /\ Decides(calls[2].res, "ask")
    /\ IsAsk(result)
    /\ result.Output.permissionDecisionReason = <<"needs approval">>

\* C3: a hook result with a terminal outcome (deny, ask, error) is the last
\* one: the run is over at that hook and the Runner was invoked once per
\* hook up to and including it, and for no later hook.
C3_ShortCircuit ==
    \A k \in 1..Len(hookResults) :
        hookResults[k].Outcome \in {"deny", "ask", "error"}
            => /\ k = Len(hookResults)
               /\ hookResults[k].HookIndex = k - 1
               /\ EndedAt(k)
               /\ result.ExitCode = 2 \/ IsAsk(result)

C3_Witness ==
    /\ pc = "done" /\ Len(hooks) = 2 /\ Len(calls) = 1
    /\ hookResults[1].Outcome \in {"deny", "ask", "error"}

\* C4: on a launch error of the Runner, a hook with on_error "skip" is
\* recorded as skipped and the fold goes on at the next hook with the
\* accumulated state and the context list unchanged; with any other policy
\* the chain ends in a Deny Result (ExitCode 2) whose reason names the hook
\* and the failure.
C4_LaunchErrorPolicy ==
    [][(StepTaken /\ IsLaunchError(Answer)) =>
          IF hooks[i].OnError = "skip" THEN SkippedStep
          ELSE /\ pc' = "done" /\ IsDeny(result')
               /\ hooks[i].Name \in Range(result'.Output.permissionDecisionReason)
               /\ Answer.err \in Range(result'.Output.permissionDecisionReason)]_vars

C4_Witness ==
    /\ pc = "loop" /\ i = 3
    /\ Applies(calls[1].res) /\ accumulated # input.ToolInput /\ contextParts # <<>>
    /\ IsLaunchError(calls[2].res)
    /\ hookResults[2].Outcome = "skip"


\* C5 as claimed: on an exit code other than 0 and 2, a hook with on_error
\* "skip" is skipped with state and context unchanged and its stdout not
\* applied; otherwise the chain ends in a Deny Result (ExitCode 2) whose
\* reason names the hook and the failure.
C5_Claimed ==
    [][(StepTaken /\ IsOtherExit(Answer)) =>
          IF hooks[i].OnError = "skip" THEN SkippedStep
          ELSE /\ pc' = "done" /\ IsDeny(result')
               /\ hooks[i].Name \in Range(result'.Output.permissionDecisionReason)]_vars

\* C5, amended: ... otherwise the chain ends in a Deny Result (ExitCode 2)
\* whose reason is the hook's stderr when that is not empty, and else a
\* message that names the hook and the exit code.
C5_OtherExitPolicy ==
    [][(StepTaken /\ IsOtherExit(Answer)) =>
          IF hooks[i].OnError = "skip" THEN SkippedStep
          ELSE /\ pc' = "done" /\ IsDeny(result')
               /\ IF Answer.Stderr # ""
                  THEN result'.Output.permissionDecisionReason = <<Answer.Stderr>>
                  ELSE /\ hooks[i].Name
                            \in Range(result'.Output.permissionDecisionReason)
                       /\ ToString(Answer.ExitCode)
                            \in Range(result'.Output.permissionDecisionReason)]_vars

C5_Witness ==
    /\ pc = "done" /\ i = 2 /\ Len(calls) = 2
    /\ IsOtherExit(calls[1].res) /\ calls[1].res.Stdout.form = "json"
    /\ hookResults[1].Outcome = "skip"
    /\ accumulated = input.ToolInput /\ contextParts = <<>>
    /\ hooks[2].OnError = "deny"
    /\ IsOtherExit(calls[2].res) /\ calls[2].res.Stderr = "boom"
    /\ IsDeny(result) /\ result.Output.permissionDecisionReason = <<"boom">>

\* C6: when a hook exits 0 with stdout that is not empty and does not decode
\* as an Output, the chain ends in a Deny Result (ExitCode 2) whose reason
\* names that hook, unless the hook's on_error is "skip": then the chain
\* goes on at the next hook with state and context unchanged.
C6_InvalidOutputPolicy ==
    [][(StepTaken /\ IsUndecodable(Answer)) =>
          IF hooks[i].OnError = "skip" THEN SkippedStep
          ELSE /\ pc' = "done" /\ IsDeny(result')
               /\ hooks[i].Name \in Range(result'.Output.permissionDecisionReason)]_vars

C6_Witness ==
    /\ pc = "done" /\ i = 2 /\ Len(calls) = 2
    /\ hookResults[1].Outcome = "skip" /\ IsUndecodable(calls[1].res)
    /\ hooks[2].OnError = "" /\ IsUndecodable(calls[2].res)
    /\ IsDeny(result) /\ "hook2" \in Range(result.Output.permissionDecisionReason)


\* The fold is over: every hook ran and none ended the chain.
FoldCompleted == pc = "done" /\ Len(hooks) > 0 /\ i = Len(hooks) + 1

Absent == [kind |-> "nil", text |-> "", members |-> {}]

\* Shallow merge of JSON values: the patch's top-level keys win.
MergedValue(b, p) ==
    IF p.kind = "nil" THEN b
    ELSE IF b.kind = "nil" THEN p
    ELSE IF b.kind = "object" /\ p.kind = "object"
    THEN [kind |-> "object", text |-> "",
          members |-> {m \in b.members : \A q \in p.members : q[1] # m[1]}
                      \cup p.members]
    ELSE b

\* The original tool_input merged, in order, with the updatedInput of each
\* of the first n hooks whose step went through.
RECURSIVE FoldedState(_)
FoldedState(n) ==
    IF n = 0 THEN ValueOf(input.ToolInput)
    ELSE IF Applies(calls[n].res)
    THEN MergedValue(FoldedState(n - 1),
                     ValueOf(calls[n].res.Stdout.hso.UpdatedInput))
    ELSE FoldedState(n - 1)

\* tool_input of the envelope the Runner got for the k-th hook.
SentToolInput(k) ==
    IF \E p \in calls[k].input : p[1] = "tool_input"
    THEN ValueOf((CHOOSE p \in calls[k].input : p[1] = "tool_input")[2])
    ELSE Absent

\* C7 as claimed: the envelope the Runner gets for hook k carries as
\* tool_input the original tool_input merged, in order, with the
\* updatedInput of every earlier hook whose step went through; nothing else
\* changes the accumulated state; the updatedInput of a completed fold is
\* that fold over all hooks.
C7_Claimed ==
    /\ \A k \in 1..Len(calls) : SentToolInput(k) = FoldedState(k - 1)
    /\ (Len(hooks) > 0 /\ pc \in {"loop", "inflight", "done"})
          => ValueOf(accumulated) = FoldedState(Cardinality(Answered))
    /\ (FoldCompleted /\ ~result.Output.isNil /\ result.Output.updatedInput # Nil)
          => ValueOf(result.Output.updatedInput) = FoldedState(Len(hooks))

\* The same with the one difference the code makes: a state that is absent
\* (no tool_input in the envelope, nothing merged yet) is sent as null.
C7_ThreadingNullForAbsent ==
    /\ \A k \in 1..Len(calls) :
          SentToolInput(k) = IF FoldedState(k - 1) = Absent THEN ValueOf(Null)
                             ELSE FoldedState(k - 1)
    /\ (Len(hooks) > 0 /\ pc \in {"loop", "inflight", "done"})
          => ValueOf(accumulated) = FoldedState(Cardinality(Answered))
    /\ (FoldCompleted /\ ~result.Output.isNil /\ result.Output.updatedInput # Nil)
          => ValueOf(result.Output.updatedInput) = FoldedState(Len(hooks))

\* on_error=skip absorbs the answer.
SkippedBy(h, res) ==
    h.OnError = "skip"
        /\ (IsLaunchError(res) \/ IsOtherExit(res) \/ IsUndecodable(res))

\* C8: when the fold completes and every hook passed through or was
\* skipped, Run returns ExitCode 0 and no body, the Result of an empty hook
\* list.
C8_PassthroughIsEmpty ==
    (FoldCompleted
        /\ \A k \in 1..Len(calls) :
              IsPassthrough(calls[k].res) \/ SkippedBy(hooks[k], calls[k].res))
    => result = Result(0, NoBody)

C8_Witness ==
    /\ FoldCompleted /\ Len(hooks) = 2
    /\ IsPassthrough(calls[1].res)
    /\ SkippedBy(hooks[2], calls[2].res) /\ calls[2].res.Stdout.form = "json"
    /\ result = Result(0, NoBody)

\* A number literal as the float64 encoding/json decodes it to.
AsFloat64(tok) == IF tok = "9007199254740993" THEN "9007199254740992" ELSE tok

\* A raw message decoded: its value with the keys in no order and every
\* number a float64.
Decoded(raw) ==
    [kind |-> raw.kind, text |-> AsFloat64(raw.text),
     members |-> {<<m[1], AsFloat64(m[2])>> : m \in raw.members}]

RECURSIVE Contributed(_)
Contributed(n) ==
    IF n = 0 THEN <<>>
    ELSE IF Applies(calls[n].res) /\ calls[n].res.Stdout.hso.AdditionalContext # ""
    THEN Append(Contributed(n - 1), calls[n].res.Stdout.hso.AdditionalContext)
    ELSE Contributed(n - 1)

\* text is the strings of parts with one newline between neighbours.
IsNewlineJoin(text, parts) ==
    /\ Len(text) = 2 * Len(parts) - 1
    /\ \A k \in 1..Len(parts) : text[2 * k - 1] = parts[k]
    /\ \A k \in 1..(Len(parts) - 1) : text[2 * k] = "\n"

\* C10: when the fold completes, additionalContext is there exactly when
\* some hook whose step went through gave a non-empty additionalContext, and
\* is those strings in hook order joined by one newline; a skipped hook
\* gives nothing.
C10_ContextJoined ==
    FoldCompleted =>
        IF Contributed(Len(calls)) = <<>>
        THEN result.Output.additionalContext = <<>>
        ELSE /\ ~result.Output.isNil
             /\ IsNewlineJoin(result.Output.additionalContext,
                              Contributed(Len(calls)))

C10_Witness ==
    /\ FoldCompleted /\ Len(hooks) = 2
    /\ result.Output.additionalContext = <<"c1", "\n", "c2">>

\* C11: with an empty hook list Run returns ExitCode 0 and no body without
\* calling the Runner, and the auditor (when there is one) gets one record,
\* with outcome "allow" and chain length 0.
C11_EmptyChain ==
    (pc = "done" /\ Len(hooks) = 0) =>
        /\ result = Result(0, NoBody)
        /\ calls = <<>>
        /\ IF auditor = "nil" THEN audits = <<>>
           ELSE /\ Len(audits) = 1
                /\ audits[1].Outcome = "allow"
                /\ audits[1].ChainLen = 0
                /\ audits[1].Hooks = <<>>

C11_Witness ==
    /\ pc = "done" /\ hooks = <<>> /\ auditor = "ok"
    /\ calls = <<>> /\ result = Result(0, NoBody)
    /\ Len(audits) = 1 /\ audits[1].Outcome = "allow" /\ audits[1].ChainLen = 0

\* Run is over: it returned, or it was ended by a panic.
RunOver == pc \in {"done", "panic"}

\* C12 as claimed: with an auditor, RecordChain is never called before Run
\* is at its end and never twice, and once Run is over, whatever path it
\* took, it has been called exactly once.
C12_Claimed ==
    auditor # "nil" =>
        /\ Len(audits) <= 1
        /\ Len(audits) = 1 => RunOver
        /\ RunOver => Len(audits) = 1

\* The same for the runs that return: RecordChain is called exactly once,
\* in the step that returns.
C12_OncePerReturn ==
    auditor # "nil" =>
        /\ Len(audits) <= 1
        /\ Len(audits) = 1 <=> pc = "done"

\* A run that ended in the panic of the merge, its auditor never called.
C12_PanicUnaudited ==
    /\ pc = "panic" /\ auditor = "ok" /\ audits = <<>>
    /\ accumulated = Null
    /\ calls[Len(calls)].res.Stdout.hso.UpdatedInput = PatchRm

\* The state of the fold after the Runner's n-th answer, computed from the
\* envelope, the hook list and the answers alone.
RECURSIVE Replay(_)
Replay(n) ==
    LET prev == IF n = 1
                THEN Continue(input.ToolInput, <<>>, <<>>)
                ELSE Replay(n - 1)
    IN HookStep(hooks[n], n - 1, calls[n].res, prev.acc, prev.ctx, prev.hrs,
                input.HookEventName)

\* The Result these give.
ReplayedResult ==
    IF Len(hooks) = 0 THEN Result(0, NoBody)
    ELSE LET last == Replay(Len(calls))
         IN IF last.next = "return" THEN last.result
            ELSE FinalResult(input, last.acc, last.ctx)

\* C13: the Result Run returns is determined by the envelope, the hook list
\* and the Runner's answers: it is the same with no auditor, with one that
\* succeeds and with one whose RecordChain returns an error.
C13_ResultIgnoresAuditor ==
    pc = "done" => result = ReplayedResult

C13_Witness ==
    /\ pc = "done" /\ auditor = "fail" /\ Len(audits) = 1
    /\ Len(hooks) = 2 /\ i = 3
    /\ result.ExitCode = 0 /\ ~result.Output.isNil
    /\ result.Output.updatedInput # Nil

\* A value that is there and is not a JSON object.
NotAnObject(raw) == raw.kind \notin {"nil", "object"}

\* The step merges the answer's updatedInput into the accumulated state.
MergesInto(res) == Applies(res) /\ res.Stdout.hso.UpdatedInput.kind # "nil"

\* C17 as claimed: when a hook's updatedInput is merged into the accumulated
\* state and one of the two is not a JSON object, the chain ends at that hook
\* with a Deny Result (ExitCode 2), whatever the hook's on_error.
C17_Claimed ==
    [][(StepTaken /\ MergesInto(Answer)
          /\ (NotAnObject(accumulated)
                \/ NotAnObject(Answer.Stdout.hso.UpdatedInput)))
       => /\ pc' = "done" /\ IsDeny(result')
          /\ Len(calls') = i]_vars

\* What holds of it: an error shallowMergeJSON returns ends the chain at
\* that hook with a Deny Result that names the hook, whatever the hook's
\* on_error.
C17_MergeErrorDenies ==
    [][(StepTaken /\ MergesInto(Answer)
          /\ shallowMergeJSON(accumulated, Answer.Stdout.hso.UpdatedInput).status
                = "err")
       => /\ pc' = "done" /\ IsDeny(result')
          /\ hooks[i].Name \in Range(result'.Output.permissionDecisionReason)
          /\ Len(calls') = i]_vars

\* A scalar updatedInput taken as the new state of an envelope without
\* tool_input, and returned as the chain's updatedInput.
C17_ScalarAccepted ==
    /\ FoldCompleted /\ input.ToolInput = Nil
    /\ \E k \in 1..Len(calls) :
          /\ MergesInto(calls[k].res)
          /\ calls[k].res.Stdout.hso.UpdatedInput = PatchScalar
    /\ result.ExitCode = 0 /\ ~result.Output.isNil
    /\ result.Output.updatedInput = PatchScalar

-----------------------------------------------------------------------------
(* The claims about shallowMergeJSON, under MergeSpec *)

MergeCalled == mergeRet # NotCalled

\* C14: for JSON objects B and P the merge succeeds with an object that has
\* exactly the keys of B and P together, one value a key; every key of P has
\* P's value, whatever the value it had in B, and every key of B alone has
\* B's value. A nested object is replaced whole.
C14_PatchKeysWin ==
    (MergeCalled /\ baseArg.kind = "object" /\ patchArg.kind = "object") =>
        /\ mergeRet.status = "ok"
        /\ mergeRet.val.kind = "object"
        /\ Keys(mergeRet.val.members)
              = Keys(baseArg.members) \cup Keys(patchArg.members)
        /\ Cardinality(mergeRet.val.members)
              = Cardinality(Keys(mergeRet.val.members))
        /\ \A m \in patchArg.members : m \in mergeRet.val.members
        /\ \A m \in baseArg.members :
              m[1] \notin Keys(patchArg.members) => m \in mergeRet.val.members

C14_Witness ==
    /\ baseArg = OptsAB /\ patchArg = OptsC
    /\ mergeRet.status = "ok"
    /\ mergeRet.val.members = {<<"command", "ls">>, <<"opts", "{\"c\":3}">>}

\* C15: with both operands absent the merge returns no value, which is not
\* the empty object; with the patch absent it returns the base, with the
\* base absent the patch, each as it was given.
C15_MergeIdentities ==
    MergeCalled =>
        /\ (RawLen0(baseArg) /\ RawLen0(patchArg)) =>
              /\ mergeRet = MergeOk(Nil)
              /\ RawLen0(mergeRet.val) /\ ~RawLen0(Obj({}))
        /\ RawLen0(patchArg) => mergeRet = MergeOk(baseArg)
        /\ RawLen0(baseArg) => mergeRet = MergeOk(patchArg)

C15_Witness ==
    /\ MergeCalled /\ RawLen0(baseArg) /\ patchArg = InIdLs
    /\ mergeRet = MergeOk(InIdLs)

\* C16 as claimed: the merge returns an error whenever an operand that is
\* there is not a JSON object, also when the other one is absent; what it
\* returns without an error is an object (or no value, for two absent
\* operands); it never panics.
C16_Claimed ==
    MergeCalled =>
        /\ (NotAnObject(baseArg) \/ NotAnObject(patchArg)) => mergeRet.status = "err"
        /\ mergeRet.status = "ok" => mergeRet.val.kind \in {"nil", "object"}
        /\ mergeRet.status # "panic"

\* The operand is an array, a string, a number or a boolean.
IsArrayOrScalar(raw) == raw.kind \in {"array", "string", "number", "bool"}

\* What holds of it: with both operands there, the merge returns an error
\* when one of them is an array, a string, a number or a boolean.
C16_ErrorWhenBothPresent ==
    (MergeCalled /\ ~RawLen0(baseArg) /\ ~RawLen0(patchArg)
        /\ (IsArrayOrScalar(baseArg) \/ IsArrayOrScalar(patchArg)))
    => mergeRet.status = "err"

\* The merge of an object into a null base panics.
C16_NullBasePanics ==
    /\ baseArg = Null /\ patchArg = PatchRm
    /\ mergeRet.status = "panic"

-----------------------------------------------------------------------------
(* The claims about the hook.Input codec, under CodecSpec *)

\* The key is in the encoded object with a value equal to v.
EncodedHas(key, v) ==
    \E q \in marshaled.fields : q[1] = key /\ ValueOf(q[2]) = ValueOf(v)

\* The keys the claim is about: all of them for the decoded Input, all but
\* tool_input for a copy WithToolInput returned.
RoundTripKeys ==
    {m \in stdin.fields : marshaled.of = 1 \/ m[1] # "tool_input"}

\* C18 as claimed: the encoding of a decoded envelope has every top-level
\* key of the envelope with an equal value, and so has the encoding of a
\* copy made by WithToolInput for every key but tool_input.
C18_Claimed ==
    marshaled.of # 0 => \A m \in RoundTripKeys : EncodedHas(m[1], m[2])

\* The string is not changed by its decoding.
WellFormed(raw) == raw.kind = "string" => UnmarshalString(raw) = raw.text

\* What holds of it: every key is retained, and so is its value, but for a
\* known string field whose text is not well-formed Unicode.
C18_KeysRetained ==
    marshaled.of # 0 =>
        \A m \in RoundTripKeys :
            /\ m[1] \in Keys(marshaled.fields)
            /\ (m[1] \notin KnownStrings \/ WellFormed(m[2]))
                  => EncodedHas(m[1], m[2])

\* A known field that came back with another value.
C18_ValueChanged ==
    /\ marshaled.of = 1
    /\ <<"tool_name", StrEscaped(LoneSurrogate)>> \in stdin.fields
    /\ <<"tool_name", Str(ReplacementChar)>> \in marshaled.fields
    /\ <<"custom", Arr("[1]")>> \in marshaled.fields

\* C19 as claimed: the decode fails for bytes that are not JSON and for a
\* top-level value that is not an object; what decodes is a top-level
\* object, and its unknown keys are in rawFields as they were written.
C19_Claimed ==
    parsed # "no" =>
        /\ stdin.kind # "object" => parsed = "err"
        /\ parsed = "ok" =>
              /\ stdin.kind = "object"
              /\ \A m \in stdin.fields :
                    m[1] \notin KnownStrings => m \in structs[1].before.rawFields

\* What holds of it: the same with a top-level null decoding to an Input
\* with no fields.
C19_NullDecodes ==
    parsed # "no" =>
        /\ stdin.kind \notin {"object", "null"} => parsed = "err"
        /\ parsed = "ok" =>
              /\ stdin.kind \in {"object", "null"}
              /\ \A m \in stdin.fields :
                    m[1] \notin KnownStrings => m \in structs[1].before.rawFields

\* A top-level null decoded without an error.
C19_NullAccepted ==
    /\ stdin.kind = "null" /\ parsed = "ok"
    /\ structs[1].before = [HookEventName |-> "", ToolName |-> "",
                             ToolInput |-> Nil, rawFields |-> {}]

\* A map without its tool_input entry.
Others(m) == {e \in m : e[1] # "tool_input"}

Matches(k) ==
    /\ resolution.chains[k].Event = resolution.eventName
    /\ resolution.toolName \in Range(resolution.chains[k].Tools)

Matching == {k \in 1..Len(resolution.chains) : Matches(k)}

\* C21: Config.Resolve returns the hooks of the first chain, in declared
\* order, whose event equals the event name and whose tool list holds the tool
\* name, both as exact strings; the hooks are those of that one chain, in the
\* order the chain declares them, whatever later chains match; when no chain
\* matches the list returned is empty.
C21_FirstMatch ==
    resolution.called =>
        IF Matching = {}
        THEN Len(resolution.hooks) = 0
        ELSE \E k \in Matching :
                /\ \A l \in Matching : k <= l
                /\ resolution.hooks = resolution.chains[k].Hooks

\* Two chains match, the later one with other hooks, and a chain that differs
\* from the names only in the case of a letter is passed over.
C21_Witness ==
    /\ resolution.called
    /\ Cardinality(Matching) = 2
    /\ \E k \in Matching, l \in Matching :
          /\ k < l
          /\ resolution.chains[k].Hooks # resolution.chains[l].Hooks
          /\ resolution.hooks = resolution.chains[k].Hooks
          /\ Len(resolution.hooks) = 2

\* No chain matches although one has the event and the tool name in another
\* case, and the list returned is empty.
C21_WitnessMiss ==
    /\ resolution.called
    /\ Matching = {}
    /\ \E k \in 1..Len(resolution.chains) :
          /\ resolution.chains[k].Event = "PreToolUse"
          /\ resolution.chains[k].Tools = <<"bash">>
    /\ resolution.eventName = "PreToolUse"
    /\ resolution.toolName = "Bash"
    /\ resolution.hooks = <<>>

-----------------------------------------------------------------------------
(* The claims about the Result and the order of the steps, under Spec *)

\* The outcome recorded for the hook the run ended at, "" when no hook ran.
LastOutcome ==
    IF Len(hookResults) = 0 THEN ""
    ELSE hookResults[Len(hookResults)].Outcome

\* C22: a Result returned by Run has ExitCode 0 or 2; it is 2 exactly when
\* the chain ended in a deny, by a hook's denial or by a failure the hook's
\* policy did not skip, and then the body says "deny"; a run ended by an ask
\* decision returns ExitCode 0 with a body whose permissionDecision is "ask";
\* a passthrough or allow returns 0 and no decision.
C22_ExitCodes ==
    pc = "done" =>
        /\ result.ExitCode \in {0, 2}
        /\ result.ExitCode = 2 <=> LastOutcome \in {"deny", "error"}
        /\ result.ExitCode = 2 <=> IsDeny(result)
        /\ LastOutcome = "ask" <=> IsAsk(result)
        /\ LastOutcome \notin {"deny", "error", "ask"} =>
              (result.Output.isNil \/ result.Output.permissionDecision = "")

\* A hook skipped for its failure, then a hook that asks: exit code 0 with
\* an "ask" body.
C22_Witness ==
    /\ pc = "done" /\ Len(calls) = 2
    /\ hookResults[1].Outcome = "skip"
    /\ Decides(calls[2].res, "ask")
    /\ LastOutcome = "ask"
    /\ result.ExitCode = 0
    /\ result.Output.permissionDecision = "ask"

\* What the hook's result satisfies, each rule's condition taken on its own.
CondExit2(res) == res.err = "" /\ res.ExitCode = 2
CondDecision(res, decision) ==
    /\ res.err = "" /\ res.Stdout.form = "json"
    /\ res.Stdout.hso.PermissionDecision = decision
CondFailure(res) ==
    \/ res.err # ""
    \/ res.ExitCode \notin {0, 2}
    \/ res.Stdout.form = "text"

\* The hook result the step just taken recorded.
Recorded == hookResults'[Len(hookResults')]

\* The step just taken was decided by the rule for exit code 2.
ByExit2 ==
    /\ pc' = "done" /\ IsDeny(result')
    /\ Recorded.ExitCode = 2 /\ Recorded.Outcome = "deny"

\* ... by the hook's explicit decision.
ByDecision(decision) ==
    /\ pc' = "done"
    /\ result'.Output.permissionDecision = decision
    /\ result'.Output.permissionDecisionReason
          = Text(Answer.Stdout.hso.PermissionDecisionReason)
    /\ result'.ExitCode = (IF decision = "deny" THEN 2 ELSE 0)
    /\ Recorded.ExitCode = 0 /\ Recorded.Outcome = decision

\* ... by the hook's on_error policy for a launch error, a non-zero exit
\* other than 2 or output that does not decode.
ByPolicy ==
    IF EffectiveOnError(hooks[i]) = "skip"
    THEN SkippedStep
    ELSE /\ pc' = "done" /\ IsDeny(result')
         /\ Recorded.Outcome \in {"error", "deny"}
         /\ Recorded.ExitCode = (IF Answer.err # "" THEN -1 ELSE Answer.ExitCode)
         /\ result'.Output.permissionDecisionReason
               # Text(Answer.Stdout.hso.PermissionDecisionReason)

\* ... by none of these: the hook passes, or its output is merged and its
\* context collected (a merge that fails ends the chain in a deny).
ByOutput ==
    \/ /\ pc' = "loop" /\ Recorded.Outcome \in {"pass", "merge", "context"}
    \/ /\ pc' = "done" /\ IsDeny(result') /\ Recorded.Outcome = "error"
       /\ MergesInto(Answer)
    \/ pc' = "panic"

\* C23 as claimed: exit code 2 decides before an explicit ask, that before an
\* explicit deny, that before the on-error policy, that before
\* passthrough/allow, whenever a hook's result satisfies several of them.
C23_Claimed ==
    [][StepTaken =>
         IF CondExit2(Answer) THEN ByExit2
         ELSE IF CondDecision(Answer, "ask") THEN ByDecision("ask")
         ELSE IF CondDecision(Answer, "deny") THEN ByDecision("deny")
         ELSE IF CondFailure(Answer) THEN ByPolicy
         ELSE ByOutput]_vars

\* C23, what holds: a launch error or a non-zero exit code decides before the
\* output is read: exit code 2 denies, a launch error and any other non-zero
\* exit go to the on-error policy even when stdout carries a decision. For a
\* hook that exits 0, output that does not decode goes to the on-error
\* policy, a decoded deny or ask decision decides before any merge, and
\* otherwise the hook passes or its output is merged.
C23_Precedence ==
    [][StepTaken =>
         IF CondExit2(Answer) THEN ByExit2
         ELSE IF Answer.err # "" \/ Answer.ExitCode # 0 THEN ByPolicy
         ELSE IF CondDecision(Answer, "deny") THEN ByDecision("deny")
         ELSE IF CondDecision(Answer, "ask") THEN ByDecision("ask")
         ELSE IF CondFailure(Answer) THEN ByPolicy
         ELSE ByOutput]_vars

\* A hook with on_error "skip" exited 1 with an ask decision on stdout and
\* was skipped; the next hook exited 2 with an ask decision on stdout and
\* the chain ended in a deny.
C23_Witness ==
    /\ pc = "done" /\ Len(calls) = 2
    /\ hooks[1].OnError = "skip"
    /\ calls[1].res.ExitCode = 1 /\ CondDecision(calls[1].res, "ask")
    /\ hookResults[1].Outcome = "skip"
    /\ CondExit2(calls[2].res) /\ CondDecision(calls[2].res, "ask")
    /\ IsDeny(result)
    /\ hookResults[2].ExitCode = 2

\* The calls made so far are for the first hooks of the list, one each and
\* in list order, and only the last of them can be without its answer.
InListOrder ==
    /\ Len(calls) <= Len(hooks)
    /\ \A k \in 1..Len(calls) : calls[k].hookName = hooks[k].Name
    /\ \A k \in 1..Len(calls) : k < Len(calls) => calls[k].returned
    /\ (pc = "inflight") <=> (Len(calls) > 0 /\ ~calls[Len(calls)].returned)

\* C24: hooks run one at a time in list order: the Runner is invoked for a
\* hook only when every earlier invocation has returned and the step of
\* every earlier hook is complete (its result recorded, its merge in the
\* accumulated state the new call is sent); a step invokes at most one hook,
\* and no hook is invoked twice or out of order.
C24_Sequential ==
    [][/\ Len(calls') \in {Len(calls), Len(calls) + 1}
       /\ Len(calls') = Len(calls) + 1 =>
             /\ pc = "loop" /\ pc' = "inflight"
             /\ \A k \in 1..Len(calls) : calls[k].returned
             /\ Len(hookResults) = Len(calls)
             /\ calls'[Len(calls')].hookName = hooks[Len(calls) + 1].Name
             /\ calls'[Len(calls')].input
                   = MarshalInput(WithToolInput(input, accumulated))
             /\ \A k \in 1..Len(calls) : calls'[k] = calls[k]
       /\ InListOrder']_vars

\* The second hook is in flight after the first one's output was merged.
C24_Witness ==
    /\ pc = "inflight" /\ Len(calls) = 2
    /\ calls[1].returned /\ ~calls[2].returned
    /\ Len(hookResults) = 1 /\ hookResults[1].Outcome = "merge"
    /\ accumulated # input.ToolInput
    /\ calls[2].hookName = "hook2"

\* C28: the reason of the Deny Result for a hook that exited 2 is the hook's
\* stderr when that is not empty, and otherwise a generic message that names
\* the hook and says it denied with exit 2.
C28_Exit2Reason ==
    \A k \in Answered :
        CondExit2(calls[k].res) =>
            /\ pc = "done" /\ IsDeny(result)
            /\ result.Output.permissionDecisionReason =
                  (IF calls[k].res.Stderr # ""
                   THEN <<calls[k].res.Stderr>>
                   ELSE <<"hook ", hooks[k].Name, " denied (exit 2)">>)

\* The second hook exited 2 with nothing on stderr.
C28_Witness ==
    /\ pc = "done" /\ Len(calls) = 2
    /\ CondExit2(calls[2].res) /\ calls[2].res.Stderr = ""
    /\ result.Output.permissionDecisionReason = <<"hook ", "hook2", " denied (exit 2)">>

\* The first hook exited 2 with "forbidden" on stderr.
C28_WitnessStderr ==
    /\ pc = "done" /\ Len(calls) = 1
    /\ CondExit2(calls[1].res) /\ calls[1].res.Stderr = "forbidden"
    /\ result.Output.permissionDecisionReason = <<"forbidden">>

\* The step just taken met a failure that ends the chain: a launch error or
\* output that does not decode, under a policy other than skip, or a merge
\* that returned an error.
FatalStep ==
    \/ /\ EffectiveOnError(hooks[i]) # "skip"
       /\ IsLaunchError(Answer) \/ IsUndecodable(Answer)
    \/ /\ MergesInto(Answer)
       /\ shallowMergeJSON(accumulated, Answer.Stdout.hso.UpdatedInput).status = "err"

\* The chain record the step just taken sent to the auditor says `outcome`.
Audited(outcome) == Len(audits') = 1 /\ audits'[1].Outcome = outcome

\* C29 as claimed: a fatal step returns a Deny Result and is audited as
\* "error"; the audit outcome is "deny" exactly for exit code 2 and for an
\* explicit deny decision.
C29_Claimed ==
    [][(StepTaken /\ auditor # "nil") =>
         /\ FatalStep => (pc' = "done" /\ IsDeny(result') /\ Audited("error"))
         /\ Audited("deny") <=> (CondExit2(Answer) \/ Decides(Answer, "deny"))]_vars

\* C29, what holds: a fatal step returns a Deny Result and is audited as
\* "error"; the audit outcome is "deny", with a Deny Result, exactly for
\* exit code 2, for an explicit deny decision of a hook that exited 0, and for
\* a non-zero exit code other than 2 under a policy other than skip.
C29_AuditOutcome ==
    [][(StepTaken /\ auditor # "nil") =>
         /\ FatalStep => (pc' = "done" /\ IsDeny(result') /\ Audited("error"))
         /\ Audited("deny") <=>
               \/ CondExit2(Answer)
               \/ Decides(Answer, "deny")
               \/ IsOtherExit(Answer) /\ EffectiveOnError(hooks[i]) # "skip"
         /\ Audited("deny") => IsDeny(result')]_vars

\* The first hook was skipped, the second wrote output that does not decode
\* under the default policy: a Deny Result audited as "error".
C29_Witness ==
    /\ pc = "done" /\ Len(calls) = 2 /\ auditor = "ok"
    /\ hookResults[1].Outcome = "skip"
    /\ hooks[2].OnError = "" /\ IsUndecodable(calls[2].res)
    /\ IsDeny(result)
    /\ Len(audits) = 1 /\ audits[1].Outcome = "error"

\* A hook exited 1 under the default policy: a Deny Result audited as "deny".
C29_OtherExitAuditedDeny ==
    /\ pc = "done" /\ Len(calls) = 1 /\ auditor = "ok"
    /\ hooks[1].OnError = "" /\ calls[1].res.ExitCode = 1
    /\ IsDeny(result)
    /\ Len(audits) = 1 /\ audits[1].Outcome = "deny"

\* The reason begins with the engine's prefix.
HasPrefix(reason) == Len(reason) > 0 /\ reason[1] = EnginePrefix

\* The reason of the Result the step just taken returned.
ReasonGiven == result'.Output.permissionDecisionReason

\* C30 as claimed: the reason of a Deny for a launch error, for output that
\* does not decode and for a merge error begins with "hook-chain:"; the
\* reason of a Deny for exit code 2 is the hook's stderr and that of an
\* explicit deny decision the hook's permissionDecisionReason, nothing added.
C30_Claimed ==
    [][(StepTaken /\ pc' = "done" /\ IsDeny(result')) =>
         /\ FatalStep => HasPrefix(ReasonGiven)
         /\ CondExit2(Answer) => ReasonGiven = Text(Answer.Stderr)
         /\ Decides(Answer, "deny") =>
               ReasonGiven = Text(Answer.Stdout.hso.PermissionDecisionReason)]_vars

\* C30, what holds: the reason of a Deny for a launch error, for output that
\* does not decode and for a merge error begins with "hook-chain:" and names
\* the hook. The reason of a Deny for exit code 2 or another non-zero exit
\* code is the hook's stderr as it is when that is not empty, and otherwise
\* a message of the engine's that names the hook and does not begin with the
\* prefix; the reason of an explicit deny decision is the hook's
\* permissionDecisionReason as it is.
C30_ReasonPrefix ==
    [][(StepTaken /\ pc' = "done" /\ IsDeny(result')) =>
         /\ FatalStep =>
               (HasPrefix(ReasonGiven) /\ hooks[i].Name \in Range(ReasonGiven))
         /\ (CondExit2(Answer) \/ IsOtherExit(Answer)) =>
               IF Answer.Stderr # ""
               THEN ReasonGiven = <<Answer.Stderr>>
               ELSE ~HasPrefix(ReasonGiven) /\ hooks[i].Name \in Range(ReasonGiven)
         /\ Decides(Answer, "deny") =>
               ReasonGiven = Text(Answer.Stdout.hso.PermissionDecisionReason)]_vars

\* The first hook was skipped and the second could not be launched under the
\* default policy: the reason begins with the prefix.
C30_Witness ==
    /\ pc = "done" /\ Len(calls) = 2
    /\ hookResults[1].Outcome = "skip"
    /\ hooks[2].OnError = "" /\ IsLaunchError(calls[2].res)
    /\ IsDeny(result)
    /\ HasPrefix(result.Output.permissionDecisionReason)
    /\ "hook2" \in Range(result.Output.permissionDecisionReason)

-----------------------------------------------------------------------------
(* The claim about cancellation, under CancelSpec *)

\* The k-th call was aborted: its process was killed, the caller's context
\* having been cancelled during the call or the hook's timeout having expired.
Aborted(k) == calls[k].returned /\ calls[k].res = Killed

\* The caller's context was cancelled while a call was in flight.
CancelledInFlight == ctxState.done /\ ctxState.during > 0

\* C25 as claimed: once a call in flight has been aborted by the caller's
\* cancellation or by the hook's timeout, no further hook is run and Run
\* returns a Deny Result (ExitCode 2); a cancelled run does not end in an
\* allow or passthrough Result.
C25_Claimed ==
    /\ \A k \in 1..Len(calls) :
          Aborted(k) => (pc = "done" /\ Len(calls) = k /\ IsDeny(result))
    /\ (pc = "done" /\ CancelledInFlight) => IsDeny(result)

\* What holds of it: an aborted call is handled as a non-zero exit code:
\* under a policy other than skip the chain ends there in a Deny Result, and
\* under skip the hook is recorded as skipped.
C25_AbortFollowsPolicy ==
    \A k \in 1..Len(calls) :
        Aborted(k) =>
            IF EffectiveOnError(hooks[k]) = "skip"
            THEN hookResults[k].Outcome = "skip" /\ hookResults[k].ExitCode = -1
            ELSE pc = "done" /\ Len(calls) = k /\ IsDeny(result)

\* The context was cancelled while the first of two hooks with on_error
\* "skip" was in flight: the hook was killed and skipped, the second could
\* not be started and was skipped, and Run returned ExitCode 0 with no body.
C25_CancelledPassthrough ==
    /\ pc = "done" /\ Len(calls) = 2
    /\ CancelledInFlight /\ ctxState.during = 1
    /\ Aborted(1) /\ calls[2].res = NotStarted
    /\ hookResults[1].Outcome = "skip" /\ hookResults[2].Outcome = "skip"
    /\ result.ExitCode = 0 /\ result.Output.isNil

-----------------------------------------------------------------------------
(* The claim about the CLI, under CliSpec *)

\* What was on stdin is not a hook input envelope: it is not a JSON object,
\* or one of its known fields is not a string.
NotAnEnvelope ==
    stdin # Unreadable /\ (stdin.kind # "object" \/ UnmarshalJSONFails(stdin))

CliExited == cliPc = "exit"

\* C26 as claimed: when stdin cannot be parsed as a hook input envelope or
\* the configuration fails to load, the process exits with code 2 and no
\* hook has been run.
C26_Claimed ==
    (CliExited /\ (NotAnEnvelope \/ loaded.err)) =>
        (exitCode = 2 /\ Len(calls) = 0)

\* What holds of it: a configuration that fails to load ends the process
\* with exit code 2 before any hook is run, in both sources; in part_002,
\* input that cannot be read, and non-empty input that json.Unmarshal
\* rejects, end it with exit code 2 and a deny on stdout.
C26_FailsClosedInPart ==
    CliExited =>
        /\ loaded.err => (exitCode = 2 /\ Len(calls) = 0)
        /\ (build = "part_002" /\ stdin # NoBytes
              /\ (stdin = Unreadable \/ UnmarshalJSONFails(stdin)))
              => (exitCode = 2 /\ written = "deny" /\ Len(calls) = 0)

\* root.go: what is on stdin is not JSON, and the process exits with code 0.
C26_ParseFailurePassthrough ==
    /\ CliExited /\ build = "root.go"
    /\ stdin.kind = "malformed"
    /\ exitCode = 0 /\ written = "none" /\ Len(calls) = 0

\* part_002: nothing is on stdin, or the literal null, and the process exits
\* with code 0.
C26_EmptyOrNullPassthrough ==
    /\ CliExited /\ build = "part_002"
    /\ stdin.kind \in {"empty", "null"}
    /\ exitCode = 0 /\ written = "none" /\ Len(calls) = 0

-----------------------------------------------------------------------------
(* The claim about rotation, under RotateSpec *)

\* C27 as claimed: of the calls of MaybeRotate that share a throttle
\* directory, no two get past the throttle less than an hour apart.
C27_Claimed ==
    \A a \in 1..Len(rotations), b \in 1..Len(rotations) :
        a < b => rotations[b] - rotations[a] >= Hour

\* What holds of it: a call gets past the throttle only when the marker is
\* not there or its mtime is an hour old or older.
C27_ThrottledByMarker ==
    [][Len(rotations') > Len(rotations) =>
         (marker = -1 \/ rotations'[Len(rotations')] - marker >= Hour)]_vars

\* Two processes have both found the marker missing before either of them
\* touched it, and both are past the throttle at the same time.
C27_BothPastThrottle ==
    /\ rotPc["p1"] = "passed" /\ rotPc["p2"] = "passed"
    /\ marker = -1
    /\ Len(rotations) = 2 /\ rotations[1] = rotations[2]

-----------------------------------------------------------------------------
(* The claims about the audit entry, the policy and the output, under Spec *)

\* C31: the chain record sent to the auditor when Run returns lists one hook
\* result for each call of the Runner made, in the order of the calls: the
\* k-th has HookIndex k - 1 and the name of the k-th hook, exit code -1 when
\* the call was a launch error and the hook's exit code otherwise; hooks
\* that were not started have none, and ChainLen is the length of the whole
\* hook list.
C31_AuditHookList ==
    (pc = "done" /\ Len(audits) = 1) =>
        /\ audits[1].ChainLen = Len(hooks)
        /\ Len(audits[1].Hooks) = Len(calls)
        /\ \A k \in 1..Len(calls) :
              /\ calls[k].returned
              /\ audits[1].Hooks[k].HookIndex = k - 1
              /\ audits[1].Hooks[k].HookName = hooks[k].Name
              /\ audits[1].Hooks[k].ExitCode =
                    (IF IsLaunchError(calls[k].res) THEN -1
                     ELSE calls[k].res.ExitCode)

\* The first of two hooks could not be launched and was skipped, the second
\* denied: two hook results, the first with exit code -1.
C31_Witness ==
    /\ pc = "done" /\ Len(audits) = 1 /\ Len(hooks) = 2 /\ Len(calls) = 2
    /\ IsLaunchError(calls[1].res)
    /\ audits[1].Hooks[1].ExitCode = -1 /\ audits[1].Hooks[1].HookIndex = 0
    /\ audits[1].Hooks[2].HookIndex = 1 /\ audits[1].Hooks[2].ExitCode = 2
    /\ audits[1].ChainLen = 2

\* The first of two hooks denied and the second was never started: one hook
\* result in a chain of length two.
C31_WitnessShort ==
    /\ pc = "done" /\ Len(audits) = 1 /\ Len(hooks) = 2 /\ Len(calls) = 1
    /\ Len(audits[1].Hooks) = 1 /\ audits[1].ChainLen = 2

-----------------------------------------------------------------------------
(* The claim about the on_error values, under CancelSpec *)

\* The k-th call failed in one of the ways the policy is asked about.
FailedCall(k) ==
    /\ calls[k].returned
    /\ \/ IsLaunchError(calls[k].res)
       \/ IsOtherExit(calls[k].res)
       \/ IsUndecodable(calls[k].res)

\* C35: a launch error, a non-zero exit code other than 2 and output that
\* does not decode end the chain with ExitCode 2 at a hook whose on_error is
\* anything but the exact string "skip" (unset, "deny", "Skip"); the chain
\* goes on past such a failure only at a hook whose on_error is "skip".
C35_OnlyExactSkip ==
    \A k \in 1..Len(calls) :
        FailedCall(k) =>
            IF hooks[k].OnError = "skip"
            THEN hookResults[k].Outcome = "skip"
            ELSE pc = "done" /\ Len(calls) = k /\ result.ExitCode = 2

\* The first hook, with on_error "skip", failed and was skipped; the second,
\* with on_error "Skip", wrote output that does not decode and the chain
\* ended with ExitCode 2.
C35_Witness ==
    /\ pc = "done" /\ Len(calls) = 2
    /\ hooks[1].OnError = "skip" /\ FailedCall(1)
    /\ hooks[2].OnError = "Skip" /\ IsUndecodable(calls[2].res)
    /\ result.ExitCode = 2

\* C36: a Deny or Ask Result carries the envelope's event name, the decision
\* and its reason and nothing else: no updatedInput and no additionalContext,
\* whatever earlier hooks of the run merged and collected.
C36_DecisionBodyIsBare ==
    (pc = "done" /\ (IsDeny(result) \/ IsAsk(result))) =>
        /\ result.Output.hookEventName = input.HookEventName
        /\ result.Output.updatedInput = Nil
        /\ result.Output.additionalContext = <<>>

\* The first hook's updatedInput was merged and its context collected, the
\* second asked: the Ask Result has neither.
C36_Witness ==
    /\ pc = "done" /\ Len(calls) = 2
    /\ hookResults[1].Outcome = "merge"
    /\ accumulated # input.ToolInput /\ Len(contextParts) = 1
    /\ IsAsk(result)
    /\ result.Output.updatedInput = Nil
    /\ result.Output.additionalContext = <<>>

\* What merging the answer's updatedInput into the accumulated state gives.
MergeOf(res) ==
    IF RawLen0(res.Stdout.hso.UpdatedInput) THEN MergeOk(accumulated)
    ELSE shallowMergeJSON(accumulated, res.Stdout.hso.UpdatedInput)

\* The step applied the answer: the merged state is the accumulated state,
\* the context, if any, is collected, and the loop goes on at the next hook.
AppliedStep ==
    /\ pc' = "loop" /\ i' = i + 1
    /\ accumulated' = MergeOf(Answer).val
    /\ contextParts' =
          (IF Answer.Stdout.hso.AdditionalContext # ""
           THEN Append(contextParts, Answer.Stdout.hso.AdditionalContext)
           ELSE contextParts)
    /\ result' = result

\* The Output of a completed fold carries no permissionDecision.
NoDecisionInFold ==
    FoldCompleted =>
        (result.Output.isNil \/ result.Output.permissionDecision = "")

\* C37 as claimed: a decoded output whose permissionDecision is neither
\* "deny" nor "ask" does not end the chain: its updatedInput and
\* additionalContext are applied and the next hook runs; the Output of a
\* completed fold carries no permissionDecision.
C37_Claimed ==
    [][/\ (StepTaken /\ Applies(Answer)) => AppliedStep
       /\ NoDecisionInFold']_vars

\* C37, what holds: such an output is never taken for a decision: when the
\* merge of its updatedInput succeeds, or it has none, the output is applied
\* and the next hook runs; when the merge returns an error the chain ends in
\* a Deny Result for the merge failure, and when the merge panics the run
\* ends. The Output of a completed fold carries no permissionDecision.
C37_NotADecision ==
    [][/\ (StepTaken /\ Applies(Answer)) =>
             IF MergeOf(Answer).status = "ok" THEN AppliedStep
             ELSE IF MergeOf(Answer).status = "err"
             THEN /\ pc' = "done" /\ IsDeny(result')
                  /\ Recorded.Outcome = "error"
                  /\ HasPrefix(ReasonGiven)
             ELSE pc' = "panic"
       /\ NoDecisionInFold']_vars

\* The first hook answered "allow" with an updatedInput, the second "Deny"
\* with a context: both were applied and the fold's Output has the merged
\* input, the context and no decision.
C37_Witness ==
    /\ FoldCompleted /\ Len(calls) = 2
    /\ calls[1].res.Stdout.hso.PermissionDecision = "allow"
    /\ calls[2].res.Stdout.hso.PermissionDecision = "Deny"
    /\ hookResults[1].Outcome = "merge" /\ hookResults[2].Outcome = "context"
    /\ result.ExitCode = 0
    /\ result.Output.permissionDecision = ""
    /\ result.Output.updatedInput # Nil
    /\ result.Output.additionalContext = <<"c2">>

-----------------------------------------------------------------------------
(* C38: what Run leaves of the caller's envelope, and what the hooks get *)

\* The envelope hook k was sent has the key with an equal value.
SentHas(k, key, v) ==
    \E q \in calls[k].input : q[1] = key /\ ValueOf(q[2]) = ValueOf(v)

\* C38 as claimed: the envelope sent to every hook has, for every key of the
\* caller's envelope other than tool_input, the value the caller's envelope
\* has for it (the caller's envelope itself being the same after every step
\* of Run, which C38_CallerInputKept states).
C38_Claimed ==
    \A k \in 1..Len(calls) :
        \A m \in Others(input.rawFields) : SentHas(k, m[1], m[2])

\* Run never assigns to the caller's Input.
C38_CallerInputKept == [][input' = input]_vars

\* What holds of the envelopes sent: every key is there, with an equal value
\* but for a known string field whose text is not well-formed Unicode.
C38_SentButIllFormed ==
    \A k \in 1..Len(calls) :
        \A m \in Others(input.rawFields) :
            /\ m[1] \in Keys(calls[k].input)
            /\ (m[1] \notin KnownStrings \/ WellFormed(m[2]))
                  => SentHas(k, m[1], m[2])

\* A hook was sent a tool_name the caller's envelope does not have.
C38_SurrogateSent ==
    /\ Len(calls) > 0
    /\ <<"tool_name", StrEscaped(LoneSurrogate)>> \in input.rawFields
    /\ <<"tool_name", Str(ReplacementChar)>> \in calls[1].input
    /\ <<"custom", Arr("[1]")>> \in calls[1].input

-----------------------------------------------------------------------------
(* C39: a first matching chain without hooks, under ResolveSpec *)

\* The first entry of the chains that matches the names.
FirstMatching == CHOOSE k \in Matching : \A l \in Matching : k <= l

\* C39: when the first chain that matches (event, tool) has an empty hook
\* list, Config.Resolve returns the empty list, whatever hooks a later chain
\* matching the same pair has.
C39_EmptyFirstMatchWins ==
    (/\ resolution.called
     /\ Matching # {}
     /\ Len(resolution.chains[FirstMatching].Hooks) = 0)
        => Len(resolution.hooks) = 0

\* The first matching chain has no hooks, a later matching one has, and
\* nothing is returned.
C39_Witness ==
    /\ resolution.called
    /\ Cardinality(Matching) = 2
    /\ Len(resolution.chains[FirstMatching].Hooks) = 0
    /\ \E l \in Matching : Len(resolution.chains[l].Hooks) > 0
    /\ Len(resolution.hooks) = 0

\* The same configuration at the command line: the process exits with code 0,
\* nothing written and no hook run.
C39_CliPassthrough ==
    (/\ CliExited
     /\ ~loaded.err /\ Len(loaded.chains) = 2
     /\ loaded.chains[1].Hooks = <<>>
     /\ stdin.kind = "object"
     /\ input.HookEventName = "PreToolUse" /\ input.ToolName = "Bash")
        => (exitCode = 0 /\ written = "none" /\ Len(calls) = 0)

C39_CliWitness ==
    /\ CliExited
    /\ ~loaded.err /\ Len(loaded.chains) = 2
    /\ loaded.chains[1].Hooks = <<>>
    /\ Len(loaded.chains[2].Hooks) = 1
    /\ input.HookEventName = "PreToolUse" /\ input.ToolName = "Bash"
    /\ exitCode = 0 /\ written = "none" /\ Len(calls) = 0

-----------------------------------------------------------------------------
(* C40: the algebra of shallowMergeJSON, under AssocSpec *)

AllObjects == \A x \in {algebra.a, algebra.b, algebra.c} : x.kind = "object"

\* Two results of shallowMergeJSON are the same JSON value.
SameValue(r, q) ==
    r.status = "ok" /\ q.status = "ok" /\ ValueOf(r.val) = ValueOf(q.val)

\* C40: over JSON objects A, B, C, Merge(Merge(A,B),C) is the JSON value
\* Merge(A,Merge(B,C)) is, and Merge(Merge(A,B),B) the value Merge(A,B) is; so
\* the state a chain with tool_input A accumulates from the patches B and C
\* is A merged once with the merge of B and C.
C40_AssociativeIdempotent ==
    (algebra.called /\ AllObjects) =>
        /\ SameValue(algebra.left, algebra.right)
        /\ SameValue(algebra.twice, algebra.once)

\* All three operands have the key command, the last two with other values
\* than the first, and the two groupings give the last one's value.
C40_Witness ==
    /\ algebra.called
    /\ algebra.a = InIdLs /\ algebra.b = PatchLs /\ algebra.c = PatchRm
    /\ SameValue(algebra.left, algebra.right)
    /\ <<"command", "rm">> \in algebra.left.val.members
    /\ <<"id", BigOdd>> \in algebra.left.val.members

\* Outside the objects the groupings differ: with null for the second operand
\* the left one is Merge(A,C) and the right one panics.
C40_NullInTheMiddle ==
    /\ algebra.called
    /\ algebra.a = InLs /\ algebra.b = Null /\ algebra.c = PatchRm
    /\ algebra.left.status = "ok"
    /\ algebra.right.status = "panic"

\* The updatedInput values of the first n hooks that were merged, merged from
\* left to right.
RECURSIVE PatchesMerged(_)
PatchesMerged(n) ==
    IF n = 0 THEN MergeOk(Nil)
    ELSE IF MergesInto(calls[n].res)
    THEN MergeThen(PatchesMerged(n - 1), calls[n].res.Stdout.hso.UpdatedInput)
    ELSE PatchesMerged(n - 1)

\* The tool_input and every merged updatedInput are objects, or absent.
ObjectsOnly ==
    /\ input.ToolInput.kind \in {"nil", "object"}
    /\ \A k \in 1..Len(calls) :
          MergesInto(calls[k].res) =>
              calls[k].res.Stdout.hso.UpdatedInput.kind = "object"

\* The same in a run of the chain: when the fold is over, the accumulated
\* state is the tool_input merged once with the merge of the patches.
C40_FoldIsOneMerge ==
    (FoldCompleted /\ ObjectsOnly) =>
        SameValue(MergeOk(accumulated),
                  MergeOnto(input.ToolInput, PatchesMerged(Len(hooks))))

C40_FoldWitness ==
    /\ FoldCompleted /\ ObjectsOnly
    /\ Len(hooks) = 2
    /\ \A k \in 1..2 : MergesInto(calls[k].res)
    /\ calls[1].res.Stdout.hso.UpdatedInput # calls[2].res.Stdout.hso.UpdatedInput
    /\ input.ToolInput.kind = "object"

-----------------------------------------------------------------------------
(* C32, C33, C34: the audit database, under AuditSpec *)

\* The hook_index values of the hook rows that reference the chain.
HookIndexes(s, id) == {h.hook_index : h \in {r \in s.hooks : r.chain_id = id}}

HasChain(s, id) == \E c \in s.chains : c.id = id

\* The chain row is stored with all n of its hook rows.
Whole(s, id, n) == HasChain(s, id) /\ HookIndexes(s, id) = 0..(n - 1)

\* Nothing of the chain is stored.
NoneOf(s, id) == ~HasChain(s, id) /\ HookIndexes(s, id) = {}

\* A call of RecordChain returns in this step.
RecordReturns == Len(recorder'.log) = Len(recorder.log) + 1

LastRecord(r) == r.log[Len(r.log)]

\* Every chain row that is committed is that of a call that returned nil and
\* has all the hook rows of the call, and every committed hook row references
\* a committed chain row.
NothingPartial(s, log) ==
    /\ \A c \in s.chains :
          \E j \in 1..Len(log) :
              log[j].ok /\ log[j].id = c.id /\ HookIndexes(s, c.id) = 0..(log[j].n - 1)
    /\ \A h \in s.hooks : HasChain(s, h.chain_id)

\* C32: when RecordChain returns nil the chain row and every one of its hook
\* rows are committed; when it returns an error nothing of the entry is, and
\* what is committed is what was before the call wrote; at no time is a chain
\* row committed with part of its hook rows, or a hook row without its chain.
C32_Atomic ==
    [][/\ RecordReturns =>
             IF LastRecord(recorder').ok
             THEN Whole(store', LastRecord(recorder').id, LastRecord(recorder').n)
             ELSE store' = store /\ NoneOf(store', LastRecord(recorder').id)
       /\ NothingPartial(store', recorder'.log)]_vars

\* A call returned an error after it had inserted the chain row and one of
\* its two hook rows, and nothing of it is stored; another returned nil, and
\* its chain is stored with its two hook rows.
C32_Witness ==
    /\ Len(recorder.log) = 2
    /\ ~recorder.log[1].ok /\ recorder.log[1].id = 1 /\ recorder.log[1].k = 1
    /\ recorder.log[2].ok /\ recorder.log[2].n = 2
    /\ Whole(store, recorder.log[2].id, 2)
    /\ Cardinality(store.chains) = 1 /\ Cardinality(store.hooks) = 2

\* The call of Prune returns in this step, with an error or without.
PruneReturns(ret) ==
    keeper.pc # "done" /\ keeper'.pc = "done" /\ keeper'.op = "prune"
        /\ keeper'.ret = ret

\* The chains whose timestamp is an instant before the cutoff.
EarlierThan(chains, cutoff) == {c \in chains : Parse(c.ts) < cutoff}

\* Prune returned nil: the chains of the set are gone with their hook rows
\* and counted, every other chain and hook row is as it was, and no hook row
\* is left without its chain.
PrunedExactly(old) ==
    /\ store'.chains = store.chains \ old
    /\ store'.hooks = {h \in store.hooks : h.chain_id \notin {c.id : c \in old}}
    /\ keeper'.count = Cardinality(old)
    /\ \A h \in store'.hooks : HasChain(store', h.chain_id)

\* C33 as claimed: Prune(olderThan) deletes exactly the chains whose timestamp
\* is earlier than now minus olderThan, with their hook results, and returns
\* their number; on error nothing is deleted.
C33_Claimed ==
    [][/\ PruneReturns("ok") =>
             PrunedExactly(EarlierThan(store.chains, keeper.cutoff))
       /\ PruneReturns("err") => store' = store]_vars

\* What holds of it: the chains deleted are those whose stored timestamp is
\* before the cutoff as it is formatted, to the millisecond.
C33_PrunedByFormattedCutoff ==
    [][/\ PruneReturns("ok") =>
             PrunedExactly(OlderThan(store.chains, Format(keeper.cutoff)))
       /\ PruneReturns("err") => store' = store]_vars

\* Prune returned 1 with one of two chains deleted, the two hook rows of the
\* other left.
C33_Witness ==
    /\ keeper.op = "prune" /\ keeper.ret = "ok" /\ keeper.count = 1
    /\ Len(recorder.log) = 2
    /\ Cardinality(store.chains) = 1 /\ Cardinality(store.hooks) = 2
    /\ \A c \in store.chains : c.ts >= Format(keeper.cutoff)

\* Prune returned 0 and left a chain whose timestamp is before the cutoff, in
\* the millisecond of the cutoff.
C33_KeptAtCutoff ==
    /\ keeper.op = "prune" /\ keeper.ret = "ok" /\ keeper.count = 0
    /\ txn.by = "none"
    /\ \E c \in store.chains :
          Parse(c.ts) < keeper.cutoff /\ c.ts = Format(keeper.cutoff)

\* The ids of the entries in the archive files that are in place.
Archived == {e.id : e \in UNION archives.final}

\* The chains this step removes from what is committed.
Removed == store.chains \ store'.chains

\* A step of the rotation.
RotationStep == keeper'.op = "rotate" /\ keeper' # keeper

\* C34 as claimed: the rotation removes a chain from the database only when
\* an archive file that holds it has been written and renamed into place;
\* when the rotation ends with an error nothing is removed; and no chain
\* newer than the cutoff is archived or removed.
C34_Claimed ==
    [][RotationStep =>
          /\ \A c \in Removed : c.id \in Archived
          /\ keeper'.ret = "err" => Removed = {}
          /\ \A c \in Removed : Parse(c.ts) < keeper.cutoff
          /\ \A e \in UNION archives'.final : Parse(e.ts) < keeper'.cutoff]_vars

\* The parts of it that hold: nothing is removed when the rotation ends with
\* an error or before the archive is in place, and nothing newer than the
\* cutoff is archived or removed.
C34_FailureRemovesNothing ==
    [][RotationStep =>
          /\ (keeper'.ret = "err" \/ archives.final = {}) => Removed = {}
          /\ \A c \in Removed : Parse(c.ts) < keeper.cutoff
          /\ \A e \in UNION archives'.final : Parse(e.ts) < keeper'.cutoff]_vars

\* The rotation is over: a chain RecordChain committed while the archive was
\* written is gone from the database and in no archive.
C34_RemovedUnarchived ==
    /\ keeper.op = "rotate" /\ keeper.ret = "ok"
    /\ \E j \in 1..Len(recorder.log) :
          /\ recorder.log[j].ok
          /\ ~HasChain(store, recorder.log[j].id)
          /\ recorder.log[j].id \notin Archived

=============================================================================
